---- MODULE Spec2Model ----
(***************************************************************************)
(* The REST layer of PingJob (server/routes.ts): the Express route table   *)
(* built by registerRoutes, the isAuthenticated gate, the two multer       *)
(* upload middlewares and the request handlers, over a small relational    *)
(* store of companies and jobs.  One request is in flight at a time; it    *)
(* walks the middleware chain of the first registration that matches it.   *)
(*                                                                         *)
(* Strings the code inspects (path parameters, query strings, file names)  *)
(* are sequences of tokens, so that parseInt, trim, path.extname and       *)
(* toLowerCase are computed and not assumed.                               *)
(***************************************************************************)
EXTENDS Integers, Sequences, FiniteSets, TLC

\* ------------------------------------------------------------------ bounds
MaxParamLen == 2      \* longest path parameter, in characters
MaxQueryLen == 3      \* longest search query, in characters
MaxNameLen  == 3      \* longest uploaded file name, in tokens
MaxId       == 1      \* largest row id the store mints

\* ----------------------------------------------------------- plain strings
RECURSIVE StrsUpTo(_, _)
\* All strings over alphabet of length 0..n.
StrsUpTo(alphabet, n) ==
  IF n = 0 THEN {<<>>}
  ELSE LET shorter == StrsUpTo(alphabet, n - 1)
       IN  shorter \cup {Append(s, c) : s \in shorter, c \in alphabet}

Digits == {"0", "1", "2", "3", "4", "5", "6", "7", "8", "9"}

DigitVal(c) ==
  CASE c = "0" -> 0 [] c = "1" -> 1 [] c = "2" -> 2 [] c = "3" -> 3
    [] c = "4" -> 4 [] c = "5" -> 5 [] c = "6" -> 6 [] c = "7" -> 7
    [] c = "8" -> 8 [] c = "9" -> 9

Whitespace == {" "}

RECURSIVE DropLeading(_, _)
DropLeading(s, drop) ==
  IF s # <<>> /\ Head(s) \in drop THEN DropLeading(Tail(s), drop) ELSE s

RECURSIVE DropTrailing(_, _)
DropTrailing(s, drop) ==
  IF s # <<>> /\ s[Len(s)] \in drop
    THEN DropTrailing(SubSeq(s, 1, Len(s) - 1), drop)
    ELSE s

\* The text as it came, blanks included (query.length without trim()).
Untrimmed(s) == s

\* String.prototype.trim
Trim(s) == DropTrailing(DropLeading(s, Whitespace), Whitespace)

\* A JavaScript number that may be NaN.
NaN    == [nan |-> TRUE, val |-> 0]
Num(n) == [nan |-> FALSE, val |-> n]
isNaN(x) == x.nan

RECURSIVE LeadingDigits(_)
LeadingDigits(s) ==
  IF s # <<>> /\ Head(s) \in Digits
    THEN <<Head(s)>> \o LeadingDigits(Tail(s))
    ELSE <<>>

RECURSIVE DecimalValue(_)
DecimalValue(ds) ==
  IF ds = <<>> THEN 0
  ELSE 10 * DecimalValue(SubSeq(ds, 1, Len(ds) - 1)) + DigitVal(ds[Len(ds)])

\* parseInt(string): leading whitespace is skipped, an optional sign is read,
\* then the longest run of decimal digits; with no digit the result is NaN.
\* Characters after the digits are ignored.
parseInt(s) ==
  LET t    == DropLeading(s, Whitespace)
      neg  == t # <<>> /\ Head(t) = "-"
      u    == IF t # <<>> /\ Head(t) \in {"-", "+"} THEN Tail(t) ELSE t
      ds   == LeadingDigits(u)
  IN  IF ds = <<>> THEN NaN
      ELSE Num(IF neg THEN 0 - DecimalValue(ds) ELSE DecimalValue(ds))

\* parseInt(undefined) is NaN.  An optional value is <<>> or <<v>>.
None    == <<>>
Some(v) == <<v>>
parseIntOpt(o) == IF o = None THEN NaN ELSE parseInt(o[1])

\* ------------------------------------------------------------- file names
\* path.extname on a name without directory separators: the part from the
\* last "." on; empty when there is no ".", when the only "." is the first
\* character, and for "..".
LastDot(name) ==
  LET dots == {i \in 1..Len(name) : name[i] = "."}
  IN  IF dots = {} THEN 0 ELSE CHOOSE i \in dots : \A j \in dots : j <= i

extname(name) ==
  LET startDot == LastDot(name)
  IN  IF \/ startDot = 0
         \/ startDot = 1
         \/ (name[1] = "." /\ startDot = Len(name) /\ startDot = 2)
        THEN <<>>
        ELSE SubSeq(name, startDot, Len(name))

LowerTok(t) ==
  CASE t = "PDF" -> "pdf"
    [] t = "PNG" -> "png"
    [] OTHER -> t

\* String.prototype.toLowerCase
toLowerCase(s) == [i \in DOMAIN s |-> LowerTok(s[i])]

\* ------------------------------------------------------- program constants
ResumeLimit == 5 * 1024 * 1024     \* upload: limits.fileSize
ImageLimit  == 2 * 1024 * 1024     \* imageUpload: limits.fileSize

\* -------------------------------------------------------------- route table
\* registerRoutes, in registration order.  A row is one app.<method>(path,
\* ...middleware, handler) call; line is where it stands in routes.ts and
\* names its handler.
Routes == <<
  [line |->   67, method |-> "GET",    path |-> <<"api", "companies", ":id", "details">>,
     auth |-> FALSE, upload |-> "none"],
  [line |->   92, method |-> "GET",    path |-> <<"api", "test-db-connection">>,
     auth |-> FALSE, upload |-> "none"],
  [line |->  119, method |-> "GET",    path |-> <<"api", "search">>,
     auth |-> FALSE, upload |-> "none"],
  [line |->  143, method |-> "GET",    path |-> <<"api", "profile", ":id">>,
     auth |-> FALSE, upload |-> "none"],
  [line |->  156, method |-> "PUT",    path |-> <<"api", "profile">>,
     auth |-> TRUE,  upload |-> "none"],
  [line |->  169, method |-> "GET",    path |-> <<"api", "experiences">>,
     auth |-> TRUE,  upload |-> "none"],
  [line |->  180, method |-> "POST",   path |-> <<"api", "experiences">>,
     auth |-> TRUE,  upload |-> "none"],
  [line |->  192, method |-> "PUT",    path |-> <<"api", "experiences", ":id">>,
     auth |-> TRUE,  upload |-> "none"],
  [line |->  203, method |-> "DELETE", path |-> <<"api", "experiences", ":id">>,
     auth |-> TRUE,  upload |-> "none"],
  [line |->  215, method |-> "GET",    path |-> <<"api", "education">>,
     auth |-> TRUE,  upload |-> "none"],
  [line |->  226, method |-> "POST",   path |-> <<"api", "education">>,
     auth |-> TRUE,  upload |-> "none"],
  [line |->  238, method |-> "PUT",    path |-> <<"api", "education", ":id">>,
     auth |-> TRUE,  upload |-> "none"],
  [line |->  249, method |-> "DELETE", path |-> <<"api", "education", ":id">>,
     auth |-> TRUE,  upload |-> "none"],
  [line |->  261, method |-> "GET",    path |-> <<"api", "skills">>,
     auth |-> TRUE,  upload |-> "none"],
  [line |->  272, method |-> "POST",   path |-> <<"api", "skills">>,
     auth |-> TRUE,  upload |-> "none"],
  [line |->  284, method |-> "DELETE", path |-> <<"api", "skills", ":id">>,
     auth |-> TRUE,  upload |-> "none"],
  [line |->  296, method |-> "GET",    path |-> <<"api", "companies", "all">>,
     auth |-> FALSE, upload |-> "none"],
  [line |->  307, method |-> "GET",    path |-> <<"api", "companies", "all">>,
     auth |-> FALSE, upload |-> "none"],
  [line |->  318, method |-> "GET",    path |-> <<"api", "companies">>,
     auth |-> FALSE, upload |-> "none"],
  [line |->  353, method |-> "GET",    path |-> <<"api", "companies", "pending">>,
     auth |-> FALSE, upload |-> "none"],
  [line |->  364, method |-> "GET",    path |-> <<"api", "companies", ":id">>,
     auth |-> FALSE, upload |-> "none"],
  [line |->  382, method |-> "POST",   path |-> <<"api", "upload", "company-logo">>,
     auth |-> FALSE, upload |-> "imageUpload"],
  [line |->  407, method |-> "POST",   path |-> <<"api", "companies">>,
     auth |-> FALSE, upload |-> "none"],
  [line |->  421, method |-> "PATCH",  path |-> <<"api", "companies", ":id", "status">>,
     auth |-> FALSE, upload |-> "none"],
  [line |->  442, method |-> "PUT",    path |-> <<"api", "companies", ":id", "approve">>,
     auth |-> FALSE, upload |-> "none"],
  [line |->  460, method |-> "PUT",    path |-> <<"api", "companies", ":id", "reject">>,
     auth |-> FALSE, upload |-> "none"],
  [line |->  478, method |-> "GET",    path |-> <<"api", "admin", "stats">>,
     auth |-> TRUE,  upload |-> "none"],
  [line |->  504, method |-> "POST",   path |-> <<"api", "vendors">>,
     auth |-> FALSE, upload |-> "none"],
  [line |->  520, method |-> "GET",    path |-> <<"api", "companies", ":id", "vendors">>,
     auth |-> FALSE, upload |-> "none"],
  [line |->  535, method |-> "PUT",    path |-> <<"api", "companies", ":id">>,
     auth |-> TRUE,  upload |-> "none"],
  [line |->  547, method |-> "GET",    path |-> <<"api", "jobs", ":id">>,
     auth |-> FALSE, upload |-> "none"],
  [line |->  564, method |-> "GET",    path |-> <<"api", "jobs">>,
     auth |-> FALSE, upload |-> "none"],
  [line |->  593, method |-> "GET",    path |-> <<"api", "jobs", ":id">>,
     auth |-> FALSE, upload |-> "none"],
  [line |->  607, method |-> "PUT",    path |-> <<"api", "jobs", ":id">>,
     auth |-> TRUE,  upload |-> "none"],
  [line |->  620, method |-> "POST",   path |-> <<"api", "jobs">>,
     auth |-> FALSE, upload |-> "none"],
  [line |->  656, method |-> "PUT",    path |-> <<"api", "jobs", ":id">>,
     auth |-> TRUE,  upload |-> "none"],
  [line |->  667, method |-> "DELETE", path |-> <<"api", "jobs", ":id">>,
     auth |-> TRUE,  upload |-> "none"],
  [line |->  679, method |-> "GET",    path |-> <<"api", "applications">>,
     auth |-> TRUE,  upload |-> "none"],
  [line |->  692, method |-> "GET",    path |-> <<"api", "jobs", ":id", "applications">>,
     auth |-> TRUE,  upload |-> "none"],
  [line |->  703, method |-> "POST",   path |-> <<"api", "applications">>,
     auth |-> TRUE,  upload |-> "upload"],
  [line |->  726, method |-> "PATCH",  path |-> <<"api", "applications", ":id", "status">>,
     auth |-> FALSE, upload |-> "none"],
  [line |->  738, method |-> "DELETE", path |-> <<"api", "applications", ":id">>,
     auth |-> FALSE, upload |-> "none"],
  [line |->  750, method |-> "GET",    path |-> <<"api", "connections">>,
     auth |-> TRUE,  upload |-> "none"],
  [line |->  761, method |-> "GET",    path |-> <<"api", "connection-requests">>,
     auth |-> TRUE,  upload |-> "none"],
  [line |->  772, method |-> "POST",   path |-> <<"api", "connections">>,
     auth |-> TRUE,  upload |-> "none"],
  [line |->  787, method |-> "PUT",    path |-> <<"api", "connections", ":id", "status">>,
     auth |-> TRUE,  upload |-> "none"],
  [line |->  800, method |-> "GET",    path |-> <<"api", "conversations">>,
     auth |-> TRUE,  upload |-> "none"],
  [line |->  811, method |-> "GET",    path |-> <<"api", "messages", ":userId">>,
     auth |-> TRUE,  upload |-> "none"],
  [line |->  823, method |-> "POST",   path |-> <<"api", "messages">>,
     auth |-> TRUE,  upload |-> "none"],
  [line |->  838, method |-> "PUT",    path |-> <<"api", "messages", ":id", "read">>,
     auth |-> TRUE,  upload |-> "none"],
  [line |->  850, method |-> "GET",    path |-> <<"api", "groups">>,
     auth |-> FALSE, upload |-> "none"],
  [line |->  861, method |-> "GET",    path |-> <<"api", "user", "groups">>,
     auth |-> TRUE,  upload |-> "none"],
  [line |->  872, method |-> "POST",   path |-> <<"api", "groups">>,
     auth |-> TRUE,  upload |-> "none"],
  [line |->  887, method |-> "POST",   path |-> <<"api", "groups", ":id", "join">>,
     auth |-> TRUE,  upload |-> "none"],
  [line |->  900, method |-> "GET",    path |-> <<"api", "search", ":query">>,
     auth |-> FALSE, upload |-> "none"],
  [line |->  931, method |-> "GET",    path |-> <<"api", "clients", ":id", "vendors">>,
     auth |-> TRUE,  upload |-> "none"],
  [line |->  942, method |-> "POST",   path |-> <<"api", "vendors">>,
     auth |-> TRUE,  upload |-> "none"],
  [line |->  960, method |-> "GET",    path |-> <<"api", "countries">>,
     auth |-> FALSE, upload |-> "none"],
  [line |->  970, method |-> "GET",    path |-> <<"api", "states", ":countryId">>,
     auth |-> FALSE, upload |-> "none"],
  [line |->  984, method |-> "GET",    path |-> <<"api", "cities", ":stateId">>,
     auth |-> FALSE, upload |-> "none"],
  [line |->  999, method |-> "GET",    path |-> <<"api", "admin", "vendors", "pending">>,
     auth |-> TRUE,  upload |-> "none"],
  [line |-> 1009, method |-> "PATCH",  path |-> <<"api", "admin", "vendors", ":id", "status">>,
     auth |-> TRUE,  upload |-> "none"],
  [line |-> 1021, method |-> "PATCH",  path |-> <<"api", "admin", "jobs", ":id">>,
     auth |-> TRUE,  upload |-> "none"],
  [line |-> 1036, method |-> "PATCH",  path |-> <<"api", "admin", "companies", ":id", "status">>,
     auth |-> TRUE,  upload |-> "none"],
  [line |-> 1049, method |-> "GET",    path |-> <<"api", "categories">>,
     auth |-> FALSE, upload |-> "none"],
  [line |-> 1059, method |-> "POST",   path |-> <<"api", "categories">>,
     auth |-> TRUE,  upload |-> "none"],
  [line |-> 1070, method |-> "GET",    path |-> <<"api", "countries">>,
     auth |-> FALSE, upload |-> "none"],
  [line |-> 1080, method |-> "GET",    path |-> <<"api", "states", ":countryId">>,
     auth |-> FALSE, upload |-> "none"],
  [line |-> 1091, method |-> "GET",    path |-> <<"api", "cities", ":stateId">>,
     auth |-> FALSE, upload |-> "none"],
  [line |-> 1103, method |-> "POST",   path |-> <<"api", "upload", "company-logo">>,
     auth |-> TRUE,  upload |-> "imageUpload"]
>>

ParamSegments == {":id", ":userId", ":query", ":countryId", ":stateId"}

\* A request path is a sequence of segments, each segment a string (a
\* sequence of tokens).  A literal pattern segment matches the segment made
\* of that one token; a parameter matches any non-empty segment.
SegmentMatches(pat, seg) ==
  IF pat \in ParamSegments THEN seg # <<>> ELSE seg = <<pat>>

PathMatches(pattern, path) ==
  /\ Len(pattern) = Len(path)
  /\ \A i \in 1..Len(pattern) : SegmentMatches(pattern[i], path[i])

Matching(method, path) ==
  {i \in 1..Len(Routes) :
     Routes[i].method = method /\ PathMatches(Routes[i].path, path)}

\* A router where the registration made last wins.
DispatchLast(method, path) ==
  LET m == Matching(method, path)
  IN  IF m = {} THEN 0 ELSE CHOOSE i \in m : \A j \in m : j <= i

\* Express tries the registrations in order and runs the first that matches;
\* no handler of this file calls next(), so no later registration runs.
\* 0 when no registration matches.
Dispatch(method, path) ==
  LET m == Matching(method, path)
  IN  IF m = {} THEN 0 ELSE CHOOSE i \in m : \A j \in m : i <= j

\* The middleware chain of a registration.
Chain(row) ==
  (IF row.auth THEN <<"isAuthenticated">> ELSE <<>>)
    \o (IF row.upload # "none" THEN <<row.upload>> ELSE <<>>)
    \o <<"handler">>

\* req.params.<name> of the matched registration
Param(path, row, name) ==
  LET i == CHOOSE k \in 1..Len(row.path) : row.path[k] = name IN path[i]

\* ------------------------------------------------------------------- values
\* req.session.user; NoUser when the request carries no session.
NoUser    == [id |-> "", email |-> ""]
AdminUser == [id |-> "admin-krupa", email |-> "krupas@vedsoft.com"]
PlainUser == [id |-> "u1", email |-> "u1@example.com"]
Sessions  == {NoUser, PlainUser, AdminUser}

\* The file part of a multipart request; NoFile when there is none.
NoFile == [field |-> "", name |-> <<>>, size |-> 0]

\* An object without properties (an empty body, an empty query string).
Empty == <<>>
Has(obj, key) == key \in DOMAIN obj
\* obj.key as an optional value
Get(obj, key) == IF Has(obj, key) THEN Some(obj[key]) ELSE None
\* { key: value, ...obj }: a property of obj wins over the one added.
WithKept(obj, key, value) == obj @@ (key :> value)
\* { ...obj, key: value }
With(obj, key, value) == (key :> value) @@ obj
\* the property key: value when the optional value is there
Prop(key, opt) == IF opt = None THEN Empty ELSE (key :> opt[1])

\* undefined, as a value handed to res.json
Undefined == [undefined |-> TRUE]

NoRes == [status |-> 0, body |-> Empty]
NoErr == [message |-> ""]
Unsettled == [state |-> "none", value |-> <<>>]
NoPromises == [companies |-> Unsettled, jobs |-> Unsettled]

\* ------------------------------------------------------------------- state
VARIABLES
  req,        \* the request in flight
  matched,    \* index in Routes of the registration serving it, 0 for none
  layer,      \* position in that registration's middleware chain
  pc,         \* "idle", "chain", "await", "error" or "done"
  user,       \* req.user, set by isAuthenticated
  file,       \* req.file, set by multer
  res,        \* the response sent, NoRes while none is
  err,        \* the error handed to next(err)
  ran,        \* the middleware and handlers that ran for this request
  calls,      \* the data-access calls made for this request, in order
  promises,   \* the two sub-searches of a global search
  companies,  \* the store's companies table: id -> <<row>> or <<>>
  jobs        \* the store's jobs table: id -> <<row>> or <<>>

vars == <<req, matched, layer, pc, user, file, res, err, ran, calls,
          promises, companies, jobs>>

Ids == 1..MaxId

NoRequest ==
  [method |-> "", path |-> <<>>, session |-> NoUser, body |-> Empty,
   file |-> NoFile, query |-> Empty]

Row       == Routes[matched]
Layer     == Chain(Row)[layer]
Running(lines) ==
  /\ pc = "chain"
  /\ Layer = "handler"
  /\ Row.line \in lines

\* res.status(status).json(body): the response is sent and the handler ends.
json(status, body) ==
  /\ res' = [status |-> status, body |-> body]
  /\ pc' = "done"

\* next(): control passes to the next layer of the chain.
next == /\ layer' = layer + 1
        /\ pc' = "chain"

\* next(error): the rest of the chain is skipped.
nextErr(message) ==
  /\ err' = [message |-> message]
  /\ pc' = "error"

\* --------------------------------------------------------------- middleware
\* A gate that sends the 401 and goes on to the next layer all the same (a
\* missing return).
isAuthenticatedLax ==
  /\ pc = "chain"
  /\ Layer = "isAuthenticated"
  /\ ran' = Append(ran, "isAuthenticated")
  /\ user' = req.session
  /\ next
  /\ res' = IF req.session # NoUser
              THEN res
              ELSE [status |-> 401, body |-> [message |-> "Authentication required"]]
  /\ UNCHANGED <<req, matched, file, err, calls, promises, companies, jobs>>

\* isAuthenticated (also registered under the name customAuth)
isAuthenticated ==
  /\ pc = "chain"
  /\ Layer = "isAuthenticated"
  /\ ran' = Append(ran, "isAuthenticated")
  /\ IF req.session # NoUser
       THEN /\ user' = req.session
            /\ next
            /\ UNCHANGED res
       ELSE /\ json(401, [message |-> "Authentication required"])
            /\ UNCHANGED <<user, layer>>
  /\ UNCHANGED <<req, matched, file, err, calls, promises, companies, jobs>>

Ext(s) == <<".", s>>
ResumeTypes == {Ext("pdf"), Ext("doc"), Ext("docx")}
ImageTypes  == {Ext("jpg"), Ext("jpeg"), Ext("png"), Ext("gif")}

\* A filter that accepts every file that has an extension at all.
fileFilterAnyType(allowedTypes, originalname) ==
  extname(originalname) # <<>>

\* The fileFilter callbacks: the lower-cased extension is on the allow-list.
fileFilter(allowedTypes, originalname) ==
  toLowerCase(extname(originalname)) \in allowedTypes

\* multer(...).single(field): without a file part the request passes on with
\* req.file unset; a file under another field, one the fileFilter refuses and
\* one over limits.fileSize end in next(error); otherwise the file is stored
\* under a generated name and req.file is set.
single(field, allowedTypes, fileSize, refusal) ==
  LET f == req.file IN
  /\ IF f = NoFile
       THEN next /\ UNCHANGED <<file, err>>
       ELSE IF f.field # field
         THEN nextErr("Unexpected field") /\ UNCHANGED <<file, layer>>
       ELSE IF ~fileFilter(allowedTypes, f.name)
         THEN nextErr(refusal) /\ UNCHANGED <<file, layer>>
       ELSE IF f.size > fileSize
         THEN nextErr("File too large") /\ UNCHANGED <<file, layer>>
       ELSE /\ file' = [filename |-> "generated", originalname |-> f.name]
            /\ next
            /\ UNCHANGED err
  /\ UNCHANGED <<req, matched, user, res, calls, promises, companies, jobs>>

\* upload.single('resume')
upload ==
  /\ pc = "chain"
  /\ Layer = "upload"
  /\ ran' = Append(ran, "upload")
  /\ single("resume", ResumeTypes, ResumeLimit,
            "Only PDF, DOC, and DOCX files are allowed")

\* imageUpload.single('logo')
imageUpload ==
  /\ pc = "chain"
  /\ Layer = "imageUpload"
  /\ ran' = Append(ran, "imageUpload")
  /\ single("logo", ImageTypes, ImageLimit,
            "Only JPG, JPEG, PNG, and GIF images are allowed")

\* registerRoutes installs no error-handling middleware and no catch-all
\* route: an error handed to next(err) that carries no status, and a request
\* no registration matches, are answered by the application's last resort,
\* with 500 and 404.
FinalHandler ==
  /\ pc = "error"
  /\ res' = IF matched = 0
              THEN [status |-> 404, body |-> [html |-> "Cannot " \o req.method]]
              ELSE [status |-> 500, body |-> [html |-> err.message]]
  /\ pc' = "done"
  /\ UNCHANGED <<req, matched, layer, user, file, err, ran, calls, promises,
                 companies, jobs>>

\* ------------------------------------------------------------ the data layer
\* storage (server/storage) is the external collaborator.  A call either
\* returns or throws.  The companies and jobs tables are kept, one row slot
\* per id; what the other tables and the list queries return is left open.
Outcomes == {"ok", "throw"}

\* What an untracked query returned.
Rows(op, args) == [returned |-> op, args |-> args]

\* The row with this id, Undefined when there is none (or the id is NaN).
Lookup(table, id) ==
  IF isNaN(id) \/ id.val \notin Ids THEN Undefined
  ELSE IF table[id.val] = None THEN Undefined
  ELSE table[id.val][1]

Exists(table, id) == Lookup(table, id) # Undefined

FreeIds(table) == {i \in Ids : table[i] = None}
NewId(table)   == CHOOSE i \in FreeIds(table) : \A j \in FreeIds(table) : i <= j

\* The table after row (a full row, with its id) is written.
Store(table, row) == [table EXCEPT ![row.id] = Some(row)]

\* The row after an update that sets the properties of changes.
Updated(row, changes) == changes @@ row

CompanyDefaults == [status |-> "pending", approvedBy |-> ""]

\* The error a failing data-access call throws.
StorageError == "connection to the database failed"

\* ----------------------------------------------------------------- schemas
\* The insert schemas of @shared/schema: the properties each knows and the
\* ones it requires.  parse keeps the known properties; it throws a ZodError
\* listing the required properties that are missing and the numbers that are
\* NaN.
insertExperienceSchema ==
  [fields |-> {"userId", "title"}, required |-> {"userId", "title"}]
insertEducationSchema ==
  [fields |-> {"userId", "institution"}, required |-> {"userId", "institution"}]
insertSkillSchema ==
  [fields |-> {"userId", "name"}, required |-> {"userId", "name"}]
insertCompanySchema ==
  [fields |-> {"userId", "name"}, required |-> {"userId", "name"}]
insertJobSchema ==
  [fields |-> {"title", "recruiterId", "employmentType", "location"},
   required |-> {"title", "recruiterId", "employmentType"}]
insertJobApplicationSchema ==
  [fields |-> {"jobId", "applicantId", "resumeUrl", "coverLetter"},
   required |-> {"jobId", "applicantId"}]
insertConnectionSchema ==
  [fields |-> {"requesterId", "receiverId"},
   required |-> {"requesterId", "receiverId"}]
insertMessageSchema ==
  [fields |-> {"senderId", "receiverId", "content"},
   required |-> {"senderId", "receiverId", "content"}]
insertGroupSchema ==
  [fields |-> {"createdBy", "name"}, required |-> {"createdBy", "name"}]
insertVendorSchema ==
  [fields |-> {"companyId", "name"}, required |-> {"companyId", "name"}]

\* schema.partial(): every property optional
partial(schema) == [schema EXCEPT !.required = {}]

NumberFields == {"jobId"}

\* schema.parse(data) as a result: success with the parsed data, or the
\* issues (the paths at fault) of the ZodError it throws.
parse(schema, data) ==
  LET issues == {f \in schema.required :
                   \/ ~Has(data, f)
                   \/ (f \in NumberFields /\ isNaN(data[f]))}
  IN  [success |-> issues = {},
       data    |-> [f \in DOMAIN data \cap schema.fields |-> data[f]],
       issues  |-> issues]

\* --------------------------------------------------------- handler plumbing
\* A handler starts: everything the request carries stays as it is.
Begin ==
  /\ ran' = Append(ran, "handler")
  /\ UNCHANGED <<req, matched, layer, user, file, err>>

\* The same for a handler that starts no concurrent calls.
Enter == Begin /\ UNCHANGED promises

Call(op, args) == [op |-> op, args |-> args]

NoCall         == UNCHANGED <<calls, companies, jobs>>
StoreUnchanged == UNCHANGED <<companies, jobs>>

Message(text) == [message |-> text]

\* The same call outside the try block: when it throws nothing is sent and
\* the request ends without a response.
AwaitUncaught(op, args, okStatus, okBody, failure) ==
  \E outcome \in Outcomes :
    /\ calls' = Append(calls, Call(op, args))
    /\ IF outcome = "ok"
         THEN json(okStatus, okBody)
         ELSE res' = res /\ pc' = "done"
    /\ StoreUnchanged

\* const r = await storage.op(...args); res.status(okStatus).json(okBody)
\* inside try { } catch { res.status(500).json(failure) }, the store read
\* only or not tracked.
Await(op, args, okStatus, okBody, failure) ==
  \E outcome \in Outcomes :
    /\ calls' = Append(calls, Call(op, args))
    /\ IF outcome = "ok" THEN json(okStatus, okBody) ELSE json(500, failure)
    /\ StoreUnchanged

\* The same for a query of one row of an untracked table, which may find
\* none: if (!row) return res.status(404).json(missing).
AwaitOne(op, args, missing, failure) ==
  \E outcome \in {"found", "none", "throw"} :
    /\ calls' = Append(calls, Call(op, args))
    /\ CASE outcome = "found" -> json(200, Rows(op, args))
         [] outcome = "none"  -> json(404, missing)
         [] outcome = "throw" -> json(500, failure)
    /\ StoreUnchanged

\* if (error instanceof z.ZodError) return res.status(400).json({ message,
\* errors: error.errors })
Invalid(text, issues) ==
  [status |-> 400, body |-> [message |-> text, errors |-> issues]]

\* const data = schema.parse(input); const r = await storage.op(data);
\* res.status(okStatus).json(r), in a try whose catch answers 500 failure to
\* whatever was thrown, after 400 to a ZodError when it has a branch for one
\* (invalid is that branch's message, "" when there is none).
Create(schema, input, op, okStatus, invalid, failure) ==
  LET r == parse(schema, input) IN
  IF r.success
    THEN Await(op, <<r.data>>, okStatus, Rows(op, <<r.data>>), failure)
    ELSE /\ res' = IF invalid # ""
                     THEN Invalid(invalid, r.issues)
                     ELSE [status |-> 500, body |-> failure]
         /\ pc' = "done"
         /\ NoCall

id == parseInt(Param(req.path, Row, ":id"))

\* ------------------------------------------------------------------ handlers
\* One action per (method, path); where routes.ts registers the pair twice,
\* the action runs the body of the registration that was matched.

\* GET /api/companies/:id/details
GetCompanyDetails ==
  /\ Running({67})
  /\ Enter
  /\ IF isNaN(id)
       THEN json(400, Message("Invalid company ID")) /\ NoCall
       ELSE \E o1, o2 \in Outcomes :
              LET c1 == Call("getJobsByCompany", <<id>>)
                  c2 == Call("getClientVendors", <<id>>)
              IN  /\ calls' = calls \o (IF o1 = "ok" THEN <<c1, c2>> ELSE <<c1>>)
                  /\ IF o1 = "ok" /\ o2 = "ok"
                       THEN json(200, [openJobs |-> Rows("getJobsByCompany", <<id>>),
                                       vendors  |-> Rows("getClientVendors", <<id>>)])
                       ELSE json(500, Message("Failed to fetch company details"))
                  /\ StoreUnchanged

\* GET /api/test-db-connection
TestDbConnection ==
  /\ Running({92})
  /\ Enter
  /\ \E outcome \in {"found", "none", "throw"} :
       /\ calls' = Append(calls, Call("getUserByEmail", <<"test@example.com">>))
       /\ CASE outcome = "found" ->
                 json(200, [status |-> "success", userFound |-> TRUE,
                            userEmail |-> "test@example.com"])
            [] outcome = "none" ->
                 json(200, [status |-> "success", userFound |-> FALSE,
                            userEmail |-> "not found"])
            [] outcome = "throw" ->
                 json(500, [status |-> "error", error |-> StorageError])
       /\ StoreUnchanged

\* GET /api/profile/:id
GetProfile ==
  /\ Running({143})
  /\ Enter
  /\ AwaitOne("getUserProfile", <<Param(req.path, Row, ":id")>>,
              Message("Profile not found"), Message("Failed to fetch profile"))

\* PUT /api/profile
PutProfile ==
  /\ Running({156})
  /\ Enter
  /\ Await("updateUserProfile", <<user.id, req.body>>, 200,
           Rows("updateUserProfile", <<user.id, req.body>>),
           Message("Failed to update profile"))

\* GET /api/experiences
GetExperiences ==
  /\ Running({169})
  /\ Enter
  /\ Await("getUserExperiences", <<user.id>>, 200,
           Rows("getUserExperiences", <<user.id>>),
           Message("Failed to fetch experiences"))

\* POST /api/experiences
PostExperience ==
  /\ Running({180})
  /\ Enter
  /\ Create(insertExperienceSchema, With(req.body, "userId", user.id),
            "addExperience", 200,
            "",
            Message("Failed to add experience"))

\* PUT /api/experiences/:id
PutExperience ==
  /\ Running({192})
  /\ Enter
  /\ Await("updateExperience", <<id, req.body>>, 200,
           Rows("updateExperience", <<id, req.body>>),
           Message("Failed to update experience"))

\* DELETE /api/experiences/:id
DeleteExperience ==
  /\ Running({203})
  /\ Enter
  /\ Await("deleteExperience", <<id>>, 200,
           Message("Experience deleted successfully"),
           Message("Failed to delete experience"))

\* GET /api/education
GetEducation ==
  /\ Running({215})
  /\ Enter
  /\ Await("getUserEducation", <<user.id>>, 200,
           Rows("getUserEducation", <<user.id>>),
           Message("Failed to fetch education"))

\* POST /api/education
PostEducation ==
  /\ Running({226})
  /\ Enter
  /\ Create(insertEducationSchema, With(req.body, "userId", user.id),
            "addEducation", 200,
            "",
            Message("Failed to add education"))

\* PUT /api/education/:id
PutEducation ==
  /\ Running({238})
  /\ Enter
  /\ Await("updateEducation", <<id, req.body>>, 200,
           Rows("updateEducation", <<id, req.body>>),
           Message("Failed to update education"))

\* DELETE /api/education/:id
DeleteEducation ==
  /\ Running({249})
  /\ Enter
  /\ Await("deleteEducation", <<id>>, 200,
           Message("Education deleted successfully"),
           Message("Failed to delete education"))

\* GET /api/skills
GetSkills ==
  /\ Running({261})
  /\ Enter
  /\ Await("getUserSkills", <<user.id>>, 200,
           Rows("getUserSkills", <<user.id>>),
           Message("Failed to fetch skills"))

\* POST /api/skills
PostSkill ==
  /\ Running({272})
  /\ Enter
  /\ Create(insertSkillSchema, With(req.body, "userId", user.id),
            "addSkill", 200,
            "",
            Message("Failed to add skill"))

\* DELETE /api/skills/:id
DeleteSkill ==
  /\ Running({284})
  /\ Enter
  /\ Await("deleteSkill", <<id>>, 200,
           Message("Skill deleted successfully"),
           Message("Failed to delete skill"))

\* ------------------------------------------------------------ global search
Truthy(opt) == opt # None /\ opt[1] # <<>>

\* a || b on optional strings
Either(a, b) == IF Truthy(a) THEN a ELSE b

Pending == [state |-> "pending", value |-> <<>>]
Fulfilled(value) == [state |-> "fulfilled", value |-> value]
Rejected == [state |-> "rejected", value |-> <<>>]

\* What a search of a table may return: rows the table holds.
Hits(table) == {<<>>} \cup {<<table[i][1]>> : i \in {j \in Ids : table[j] # None}}

\* const [companies, jobs] = await Promise.all([storage.searchCompanies(...),
\* storage.searchJobs(...)]): both calls are made, then the handler waits.
SearchBoth(companyArgs, jobArgs) ==
  /\ calls' = calls \o <<Call("searchCompanies", companyArgs),
                         Call("searchJobs", jobArgs)>>
  /\ promises' = [companies |-> Pending, jobs |-> Pending]
  /\ pc' = "await"
  /\ UNCHANGED res

\* GET /api/search
Search ==
  /\ Running({119})
  /\ Begin
  /\ StoreUnchanged
  /\ LET query == Either(Get(req.query, "q"), Get(req.query, "query")) IN
     IF ~Truthy(query) \/ Len(Trim(query[1])) < 3
       THEN /\ json(200, [companies |-> <<>>, jobs |-> <<>>])
            /\ UNCHANGED <<calls, promises>>
       ELSE SearchBoth(<<query[1], 10>>, <<query[1], Empty, 10>>)

\* GET /api/search/:query
SearchByPath ==
  /\ Running({900})
  /\ Begin
  /\ StoreUnchanged
  /\ LET query == Param(req.path, Row, ":query")
         limit == IF Truthy(Get(req.query, "limit"))
                    THEN parseInt(req.query["limit"]) ELSE Num(10)
     IN
     IF query = <<>> \/ Len(query) < 2
       THEN /\ json(200, [companies |-> <<>>, jobs |-> <<>>])
            /\ UNCHANGED <<calls, promises>>
       ELSE SearchBoth(<<query, limit>>, <<query, [limit |-> limit]>>)

\* The destructuring written the other way round: const [jobs, companies].
SearchAnswerSwapped(line, p) ==
  IF p.companies.state = "rejected" \/ p.jobs.state = "rejected"
    THEN [status |-> 500, body |-> Message("Search failed")]
  ELSE IF p.companies.state = "fulfilled" /\ p.jobs.state = "fulfilled"
    THEN [status |-> 200,
          body |-> [companies |-> p.jobs.value, jobs |-> p.companies.value]]
  ELSE NoRes

\* Promise.allSettled in place of Promise.all: the handler waits for both
\* and answers with what succeeded, an empty list for what failed.
SearchAnswerSettled(line, p) ==
  IF p.companies.state \in {"pending", "none"}
       \/ p.jobs.state \in {"pending", "none"}
    THEN NoRes
    ELSE [status |-> 200,
          body |-> [companies |-> p.companies.value, jobs |-> p.jobs.value]]

\* What the handler that awaits Promise.all answers once the promises stand
\* as p: its catch block as soon as one is rejected, its success response
\* when both are fulfilled, nothing yet otherwise.
SearchAnswer(line, p) ==
  IF p.companies.state = "rejected" \/ p.jobs.state = "rejected"
    THEN IF line = 119
           THEN [status |-> 500, body |-> Message("Search failed")]
           ELSE [status |-> 500,
                 body |-> [message |-> "Failed to perform search",
                           companies |-> <<>>, jobs |-> <<>>]]
  ELSE IF p.companies.state = "fulfilled" /\ p.jobs.state = "fulfilled"
    THEN IF line = 119
           THEN [status |-> 200,
                 body |-> [companies |-> p.companies.value,
                           jobs |-> p.jobs.value]]
           ELSE [status |-> 200,
                 body |-> [companies |-> p.companies.value,
                           jobs |-> p.jobs.value,
                           total |-> Len(p.companies.value)
                                       + Len(p.jobs.value)]]
  ELSE NoRes

\* One of the two searches settles.  The response, once sent, stands.
Settle(which, settled) ==
  LET p == [promises EXCEPT ![which] = settled] IN
  /\ pc = "await"
  /\ promises[which].state = "pending"
  /\ promises' = p
  /\ res' = IF res.status # 0 THEN res ELSE SearchAnswer(Row.line, p)
  /\ pc' = IF p.companies.state # "pending" /\ p.jobs.state # "pending"
             THEN "done" ELSE "await"
  /\ ran' = Append(ran, which)
  /\ UNCHANGED <<req, matched, layer, user, file, err, calls, companies, jobs>>

\* storage.searchCompanies returns or throws
CompanySearchSettles ==
  \E settled \in {Fulfilled(h) : h \in Hits(companies)} \cup {Rejected} :
    Settle("companies", settled)

\* storage.searchJobs returns or throws
JobSearchSettles ==
  \E settled \in {Fulfilled(h) : h \in Hits(jobs)} \cup {Rejected} :
    Settle("jobs", settled)

\* ---------------------------------------------------------------- companies
\* GET /api/companies/all, registered at lines 296 and 307
GetAllCompanies ==
  /\ Running({296, 307})
  /\ Enter
  /\ Await("getCompanies", <<Num(50000)>>, 200,
           Rows("getCompanies", <<Num(50000)>>),
           IF Row.line = 296
             THEN Message("Failed to fetch all companies")
             ELSE Message("Failed to fetch companies"))

\* x > n and x >= n on numbers that may be NaN
Gt(x, n)  == ~isNaN(x) /\ x.val > n
Geq(x, n) == ~isNaN(x) /\ x.val >= n

UndefinedText == <<"u", "n", "d", "e", "f", "i", "n", "e", "d">>

\* GET /api/companies that lists with the limit as asked, however large.
GetCompaniesUncapped ==
  /\ Running({318})
  /\ Enter
  /\ LET query == Get(req.query, "q")
         limit == IF Truthy(Get(req.query, "limit"))
                    THEN parseInt(req.query["limit"]) ELSE Num(0)
         searchLimit == IF Gt(limit, 100)
                          THEN (IF limit.val < 1000 THEN limit ELSE Num(1000))
                          ELSE Num(100)
         actualLimit == limit
         failure == Message("Failed to fetch companies")
     IN
     IF Truthy(query) /\ query[1] # UndefinedText /\ Len(query[1]) >= 2
       THEN Await("searchCompanies", <<query[1], searchLimit>>, 200,
                  Rows("searchCompanies", <<query[1], searchLimit>>), failure)
     ELSE IF Gt(limit, 0)
       THEN Await("getCompanies", <<actualLimit>>, 200,
                  Rows("getCompanies", <<actualLimit>>), failure)
     ELSE Await("getCompanies", <<Num(100)>>, 200,
                Rows("getCompanies", <<Num(100)>>), failure)

\* GET /api/companies that searches with any limit above 100 as asked.
GetCompaniesSearchUncapped ==
  /\ Running({318})
  /\ Enter
  /\ LET query == Get(req.query, "q")
         limit == IF Truthy(Get(req.query, "limit"))
                    THEN parseInt(req.query["limit"]) ELSE Num(0)
         searchLimit == IF Gt(limit, 100)
                          THEN limit
                          ELSE Num(100)
         actualLimit == IF Geq(limit, 50000) THEN Num(50000) ELSE limit
         failure == Message("Failed to fetch companies")
     IN
     IF Truthy(query) /\ query[1] # UndefinedText /\ Len(query[1]) >= 2
       THEN Await("searchCompanies", <<query[1], searchLimit>>, 200,
                  Rows("searchCompanies", <<query[1], searchLimit>>), failure)
     ELSE IF Gt(limit, 0)
       THEN Await("getCompanies", <<actualLimit>>, 200,
                  Rows("getCompanies", <<actualLimit>>), failure)
     ELSE Await("getCompanies", <<Num(100)>>, 200,
                Rows("getCompanies", <<Num(100)>>), failure)

\* GET /api/companies
GetCompanies ==
  /\ Running({318})
  /\ Enter
  /\ LET query == Get(req.query, "q")
         limit == IF Truthy(Get(req.query, "limit"))
                    THEN parseInt(req.query["limit"]) ELSE Num(0)
         searchLimit == IF Gt(limit, 100)
                          THEN (IF limit.val < 1000 THEN limit ELSE Num(1000))
                          ELSE Num(100)
         actualLimit == IF Geq(limit, 50000) THEN Num(50000) ELSE limit
         failure == Message("Failed to fetch companies")
     IN
     IF Truthy(query) /\ query[1] # UndefinedText /\ Len(query[1]) >= 2
       THEN Await("searchCompanies", <<query[1], searchLimit>>, 200,
                  Rows("searchCompanies", <<query[1], searchLimit>>), failure)
     ELSE IF Gt(limit, 0)
       THEN Await("getCompanies", <<actualLimit>>, 200,
                  Rows("getCompanies", <<actualLimit>>), failure)
     ELSE Await("getCompanies", <<Num(100)>>, 200,
                Rows("getCompanies", <<Num(100)>>), failure)

\* GET /api/companies/pending
GetPendingCompanies ==
  /\ Running({353})
  /\ Enter
  /\ Await("getPendingCompanies", <<>>, 200,
           Rows("getPendingCompanies", <<>>),
           Message("Failed to fetch pending companies"))

\* GET /api/companies/:id without the test for a missing row: whatever the
\* store returned is sent with 200.
GetCompanyUnchecked ==
  /\ Running({364})
  /\ Enter
  /\ IF isNaN(id)
       THEN json(400, Message("Invalid company ID")) /\ NoCall
       ELSE \E outcome \in Outcomes :
              /\ calls' = Append(calls, Call("getCompany", <<id>>))
              /\ IF outcome = "throw"
                   THEN json(500, Message("Failed to fetch company"))
                   ELSE json(200, Lookup(companies, id))
              /\ StoreUnchanged

\* GET /api/companies/:id
GetCompany ==
  /\ Running({364})
  /\ Enter
  /\ IF isNaN(id)
       THEN json(400, Message("Invalid company ID")) /\ NoCall
       ELSE \E outcome \in Outcomes :
              LET company == Lookup(companies, id) IN
              /\ calls' = Append(calls, Call("getCompany", <<id>>))
              /\ IF outcome = "throw"
                   THEN json(500, Message("Failed to fetch company"))
                   ELSE IF company = Undefined
                     THEN json(404, Message("Company not found"))
                     ELSE json(200, company)
              /\ StoreUnchanged

\* POST /api/upload/company-logo, registered at lines 382 and 1103.  The
\* first registration moves the stored file into logos/, which fs.renameSync
\* may refuse.
UploadCompanyLogo ==
  /\ Running({382, 1103})
  /\ Enter
  /\ NoCall
  /\ IF file = NoFile
       THEN json(400, Message("No file uploaded"))
       ELSE IF Row.line = 382
         THEN \E renamed \in BOOLEAN :
                IF renamed
                  THEN json(200, [logoUrl |-> <<"/logos/company-logo-", "now">>
                                               \o extname(file.originalname)])
                  ELSE json(500, Message("Failed to upload logo"))
         ELSE json(200, [logoUrl |-> <<"/uploads/", file.filename>>])

\* storage.createCompany / createJob: the row gets the next free id.
Insert(table, data, defaults) ==
  Store(table, With(data @@ defaults, "id", NewId(table)))

\* POST /api/companies
PostCompany ==
  /\ Running({407})
  /\ Enter
  /\ UNCHANGED jobs
  /\ LET userId == "admin-krupa"
         r == parse(insertCompanySchema, With(req.body, "userId", userId))
         failure == Message("Failed to create company")
     IN
     IF ~r.success
       THEN json(500, failure) /\ UNCHANGED <<calls, companies>>
       ELSE \E outcome \in Outcomes :
              /\ calls' = Append(calls, Call("createCompany", <<r.data>>))
              /\ IF outcome = "ok" /\ FreeIds(companies) # {}
                   THEN /\ companies' = Insert(companies, r.data, CompanyDefaults)
                        /\ json(200, companies'[NewId(companies)][1])
                   ELSE /\ json(500, failure)
                        /\ UNCHANGED companies

\* a || b on a property that may be absent or the empty text
OrElse(opt, default) == IF opt # None /\ opt[1] # "" THEN opt[1] ELSE default

\* const company = await storage.<op>(companyId, ...); res.json(company): the
\* row is changed when it is there, and what the store returns is answered.
ChangeCompany(op, args, companyId, changes, failure) ==
  \E outcome \in Outcomes :
    /\ calls' = Append(calls, Call(op, args))
    /\ IF outcome = "ok"
         THEN /\ companies' =
                   IF Exists(companies, companyId)
                     THEN Store(companies,
                                Updated(Lookup(companies, companyId), changes))
                     ELSE companies
              /\ json(200, Lookup(companies', companyId))
         ELSE /\ json(500, failure)
              /\ UNCHANGED companies
    /\ UNCHANGED jobs

\* storage.updateCompanyStatus(companyId, status, approvedBy); a status that
\* is undefined is not written.
updateCompanyStatus(companyId, status, approvedBy, failure) ==
  IF isNaN(companyId)
    THEN json(400, Message("Invalid company ID")) /\ NoCall
    ELSE ChangeCompany("updateCompanyStatus", <<companyId, status, approvedBy>>,
                       companyId,
                       With(Prop("status", status), "approvedBy", approvedBy),
                       failure)

\* PATCH /api/companies/:id/status that refuses a status the company
\* already has.
PatchCompanyStatusOnce ==
  /\ Running({421})
  /\ Enter
  /\ LET userId == "admin-krupa" IN
     IF Exists(companies, id)
          /\ Some(Lookup(companies, id).status) = Get(req.body, "status")
       THEN json(409, Message("Company status already set")) /\ NoCall
       ELSE updateCompanyStatus(id, Get(req.body, "status"),
                                OrElse(Get(req.body, "approvedBy"), userId),
                                Message("Failed to update company status"))

\* PATCH /api/companies/:id/status
PatchCompanyStatus ==
  /\ Running({421})
  /\ Enter
  /\ LET userId == "admin-krupa" IN
     updateCompanyStatus(id, Get(req.body, "status"),
                         OrElse(Get(req.body, "approvedBy"), userId),
                         Message("Failed to update company status"))

\* PUT /api/companies/:id/approve
ApproveCompany ==
  /\ Running({442})
  /\ Enter
  /\ updateCompanyStatus(id, Some("approved"), "admin-krupa",
                         Message("Failed to approve company"))

\* PUT /api/companies/:id/reject
RejectCompany ==
  /\ Running({460})
  /\ Enter
  /\ updateCompanyStatus(id, Some("rejected"), "admin-krupa",
                         Message("Failed to reject company"))

AdminEmails == {"krupas@vedsoft.com", "krupashankar@gmail.com"}

\* GET /api/admin/stats
GetAdminStats ==
  /\ Running({478})
  /\ Enter
  /\ IF user.email \notin AdminEmails
       THEN json(403, Message("Access denied")) /\ NoCall
       ELSE Await("getJobs", <<Empty, Num(1000)>>, 200,
                  [activeJobs |-> Rows("getJobs", <<Empty, Num(1000)>>),
                   totalUsers |-> 0, revenue |-> 0, activeSessions |-> 0],
                  Message("Failed to fetch stats"))

\* POST /api/vendors, registered at lines 504 and 942
PostVendor ==
  /\ Running({504, 942})
  /\ Enter
  /\ IF Row.line = 504
       THEN LET vendorData == With(req.body, "createdBy", "admin-krupa") IN
            Await("addVendor", <<vendorData>>, 200,
                  Rows("addVendor", <<vendorData>>),
                  Message("Failed to add vendor"))
       ELSE LET r == parse(insertVendorSchema, req.body) IN
            IF r.success
              THEN LET vendor == With(r.data, "addedBy", user.id) IN
                   Await("addVendor", <<vendor>>, 201,
                         Rows("addVendor", <<vendor>>),
                         Message("Failed to add vendor"))
              ELSE /\ res' = Invalid("Invalid vendor data", r.issues)
                   /\ pc' = "done"
                   /\ NoCall

\* GET /api/companies/:id/vendors
GetCompanyVendors ==
  /\ Running({520})
  /\ Enter
  /\ IF isNaN(id)
       THEN json(400, Message("Invalid company ID")) /\ NoCall
       ELSE Await("getClientVendors", <<id>>, 200,
                  Rows("getClientVendors", <<id>>),
                  Message("Failed to fetch vendors"))

\* PUT /api/companies/:id
PutCompany ==
  /\ Running({535})
  /\ Enter
  /\ ChangeCompany("updateCompany", <<id, req.body>>, id, req.body,
                   Message("Failed to update company"))

\* --------------------------------------------------------------------- jobs
\* GET /api/jobs/:id, registered at lines 547 and 593
GetJob ==
  /\ Running({547, 593})
  /\ Enter
  /\ \E outcome \in Outcomes :
       LET jobId == id
           job == Lookup(jobs, jobId)
       IN
       /\ calls' = Append(calls, Call("getJob", <<jobId>>))
       /\ IF Row.line = 547
            THEN IF outcome = "throw"
                   THEN json(500, [error |-> "Failed to fetch job"])
                   ELSE IF job = Undefined
                     THEN json(404, [error |-> "Job not found"])
                     ELSE json(200, job)
            ELSE IF outcome = "throw"
                   THEN json(500, Message("Failed to fetch job"))
                   ELSE IF job = Undefined
                     THEN json(404, Message("Job not found"))
                     ELSE json(200, job)
       /\ StoreUnchanged

\* GET /api/jobs
GetJobs ==
  /\ Running({564})
  /\ Enter
  /\ LET filters == Prop("jobType", Get(req.query, "jobType"))
                      @@ Prop("experienceLevel", Get(req.query, "experienceLevel"))
                      @@ Prop("location", Get(req.query, "location"))
                      @@ (IF Truthy(Get(req.query, "companyId"))
                            THEN ("companyId" :> parseInt(req.query["companyId"]))
                            ELSE Empty)
         limit == IF Truthy(Get(req.query, "limit"))
                    THEN parseInt(req.query["limit"]) ELSE Num(50)
         failure == Message("Failed to fetch jobs")
     IN
     IF Truthy(Get(req.query, "search"))
       THEN Await("searchJobs", <<req.query["search"], filters>>, 200,
                  Rows("searchJobs", <<req.query["search"], filters>>), failure)
       ELSE Await("getJobs", <<filters, limit>>, 200,
                  Rows("getJobs", <<filters, limit>>), failure)

\* const job = await storage.updateJob(jobId, changes); res.json(job)
ChangeJob(jobId, changes, failure) ==
  \E outcome \in Outcomes :
    /\ calls' = Append(calls, Call("updateJob", <<jobId, changes>>))
    /\ IF outcome = "ok"
         THEN /\ jobs' = IF Exists(jobs, jobId)
                           THEN Store(jobs, Updated(Lookup(jobs, jobId), changes))
                           ELSE jobs
              /\ json(200, Lookup(jobs', jobId))
         ELSE /\ json(500, failure)
              /\ UNCHANGED jobs
    /\ UNCHANGED companies

\* PUT /api/jobs/:id, registered at lines 607 and 656
PutJob ==
  /\ Running({607, 656})
  /\ Enter
  /\ IF Row.line = 607
       THEN LET r == parse(insertJobSchema, req.body) IN
            IF r.success
              THEN ChangeJob(id, r.data, [error |-> "Failed to update job"])
              ELSE json(500, [error |-> "Failed to update job"]) /\ NoCall
       ELSE ChangeJob(id, req.body, Message("Failed to update job"))

Field(obj, key) == IF Has(obj, key) THEN obj[key] ELSE ""

\* error.message of a ZodError: its issues as JSON text
ZodMessage == "the issues of the ZodError"

\* POST /api/jobs that never writes a location of its own.
PostJobUnlocated ==
  /\ Running({620})
  /\ Enter
  /\ UNCHANGED companies
  /\ LET userId == "admin-krupa"
         jobData == With(With(req.body, "recruiterId", userId), "employmentType",
                         OrElse(Get(req.body, "jobType"), "full_time"))
         r == parse(insertJobSchema, jobData)
     IN
     IF ~r.success
       THEN /\ json(500, [message |-> "Failed to create job",
                          error   |-> ZodMessage,
                          details |-> r.issues])
            /\ UNCHANGED <<calls, jobs>>
       ELSE \E outcome \in Outcomes :
              /\ calls' = Append(calls, Call("createJob", <<r.data>>))
              /\ IF outcome = "ok" /\ FreeIds(jobs) # {}
                   THEN /\ jobs' = Insert(jobs, r.data, Empty)
                        /\ json(200, jobs'[NewId(jobs)][1])
                   ELSE /\ json(500, [message |-> "Failed to create job",
                                      error   |-> StorageError,
                                      details |-> {}])
                        /\ UNCHANGED jobs

\* POST /api/jobs
PostJob ==
  /\ Running({620})
  /\ Enter
  /\ UNCHANGED companies
  /\ LET userId == "admin-krupa"
         base == With(With(req.body, "recruiterId", userId), "employmentType",
                      OrElse(Get(req.body, "jobType"), "full_time"))
         jobData ==
           IF Field(base, "city") # "" /\ Field(base, "state") # ""
                /\ Field(base, "country") # ""
             THEN With(base, "location",
                       <<base["city"], ", ", base["state"], ", ", base["country"]>>)
             ELSE base
         r == parse(insertJobSchema, jobData)
     IN
     IF ~r.success
       THEN /\ json(500, [message |-> "Failed to create job",
                          error   |-> ZodMessage,
                          details |-> r.issues])
            /\ UNCHANGED <<calls, jobs>>
       ELSE \E outcome \in Outcomes :
              /\ calls' = Append(calls, Call("createJob", <<r.data>>))
              /\ IF outcome = "ok" /\ FreeIds(jobs) # {}
                   THEN /\ jobs' = Insert(jobs, r.data, Empty)
                        /\ json(200, jobs'[NewId(jobs)][1])
                   ELSE /\ json(500, [message |-> "Failed to create job",
                                      error   |-> StorageError,
                                      details |-> {}])
                        /\ UNCHANGED jobs

\* DELETE /api/jobs/:id
DeleteJob ==
  /\ Running({667})
  /\ Enter
  /\ UNCHANGED companies
  /\ \E outcome \in Outcomes :
       /\ calls' = Append(calls, Call("deleteJob", <<id>>))
       /\ IF outcome = "ok"
            THEN /\ jobs' = IF Exists(jobs, id)
                              THEN [jobs EXCEPT ![id.val] = None] ELSE jobs
                 /\ json(200, Message("Job deleted successfully"))
            ELSE /\ json(500, Message("Failed to delete job"))
                 /\ UNCHANGED jobs

\* ------------------------------------------------------------- applications
\* GET /api/applications
GetApplications ==
  /\ Running({679})
  /\ Enter
  /\ Await("getUserJobApplications", <<user.id>>, 200,
           Rows("getUserJobApplications", <<user.id>>),
           Message("Failed to fetch applications"))

\* GET /api/jobs/:id/applications
GetJobApplications ==
  /\ Running({692})
  /\ Enter
  /\ Await("getJobApplications", <<id>>, 200,
           Rows("getJobApplications", <<id>>),
           Message("Failed to fetch job applications"))

\* POST /api/applications
PostApplication ==
  /\ Running({703})
  /\ Enter
  /\ LET userId == user.id
         resumeUrl == IF file # NoFile
                        THEN <<"/uploads/", file.filename>> ELSE <<>>
         input == With(With(With(req.body,
                    "jobId", parseIntOpt(Get(req.body, "jobId"))),
                    "applicantId", userId),
                    "resumeUrl", resumeUrl)
     IN
     Create(insertJobApplicationSchema, input, "createJobApplication", 200,
            "Invalid application data",
            Message("Failed to create application"))

\* PATCH /api/applications/:id/status
PatchApplicationStatus ==
  /\ Running({726})
  /\ Enter
  /\ Await("updateJobApplicationStatus", <<id, Get(req.body, "status")>>, 200,
           Rows("updateJobApplicationStatus", <<id, Get(req.body, "status")>>),
           Message("Failed to update application status"))

\* DELETE /api/applications/:id
DeleteApplication ==
  /\ Running({738})
  /\ Enter
  /\ Await("deleteJobApplication", <<id>>, 200,
           Message("Application withdrawn successfully"),
           Message("Failed to withdraw application"))

\* ------------------------------------------- connections, messages, groups
\* GET /api/connections
GetConnections ==
  /\ Running({750})
  /\ Enter
  /\ Await("getUserConnections", <<user.id>>, 200,
           Rows("getUserConnections", <<user.id>>),
           Message("Failed to fetch connections"))

\* GET /api/connection-requests
GetConnectionRequests ==
  /\ Running({761})
  /\ Enter
  /\ Await("getConnectionRequests", <<user.id>>, 200,
           Rows("getConnectionRequests", <<user.id>>),
           Message("Failed to fetch connection requests"))

\* POST /api/connections
PostConnection ==
  /\ Running({772})
  /\ Enter
  /\ Create(insertConnectionSchema, With(req.body, "requesterId", user.id),
            "createConnection", 200,
            "",
            Message("Failed to create connection"))

\* PUT /api/connections/:id/status
PutConnectionStatus ==
  /\ Running({787})
  /\ Enter
  /\ Await("updateConnectionStatus", <<id, Get(req.body, "status")>>, 200,
           Rows("updateConnectionStatus", <<id, Get(req.body, "status")>>),
           Message("Failed to update connection status"))

\* GET /api/conversations
GetConversations ==
  /\ Running({800})
  /\ Enter
  /\ Await("getConversations", <<user.id>>, 200,
           Rows("getConversations", <<user.id>>),
           Message("Failed to fetch conversations"))

\* GET /api/messages/:userId
GetMessages ==
  /\ Running({811})
  /\ Enter
  /\ Await("getUserMessages", <<user.id, Param(req.path, Row, ":userId")>>, 200,
           Rows("getUserMessages", <<user.id, Param(req.path, Row, ":userId")>>),
           Message("Failed to fetch messages"))

\* POST /api/messages
PostMessage ==
  /\ Running({823})
  /\ Enter
  /\ Create(insertMessageSchema, With(req.body, "senderId", user.id),
            "createMessage", 200,
            "",
            Message("Failed to create message"))

\* PUT /api/messages/:id/read
MarkMessageRead ==
  /\ Running({838})
  /\ Enter
  /\ Await("markMessageAsRead", <<id>>, 200,
           Rows("markMessageAsRead", <<id>>),
           Message("Failed to mark message as read"))

\* GET /api/groups
GetGroups ==
  /\ Running({850})
  /\ Enter
  /\ LET limit == IF Truthy(Get(req.query, "limit"))
                    THEN parseInt(req.query["limit"]) ELSE Num(20)
     IN  Await("getGroups", <<limit>>, 200, Rows("getGroups", <<limit>>),
               Message("Failed to fetch groups"))

\* GET /api/user/groups
GetUserGroups ==
  /\ Running({861})
  /\ Enter
  /\ Await("getUserGroups", <<user.id>>, 200,
           Rows("getUserGroups", <<user.id>>),
           Message("Failed to fetch user groups"))

\* POST /api/groups
PostGroup ==
  /\ Running({872})
  /\ Enter
  /\ Create(insertGroupSchema, With(req.body, "createdBy", user.id),
            "createGroup", 200,
            "",
            Message("Failed to create group"))

\* POST /api/groups/:id/join
JoinGroup ==
  /\ Running({887})
  /\ Enter
  /\ Await("joinGroup", <<id, user.id>>, 200,
           Message("Successfully joined group"),
           Message("Failed to join group"))

\* ------------------------------------------ vendors, locations, admin
\* GET /api/clients/:id/vendors
GetClientVendors ==
  /\ Running({931})
  /\ Enter
  /\ Await("getClientVendors", <<id>>, 200,
           Rows("getClientVendors", <<id>>),
           Message("Failed to fetch vendors"))

\* GET /api/countries, registered at lines 960 and 1070
GetCountries ==
  /\ Running({960, 1070})
  /\ Enter
  /\ Await("getCountries", <<>>, 200, Rows("getCountries", <<>>),
           Message("Failed to fetch countries"))

\* GET /api/states/:countryId, registered at lines 970 and 1080
GetStates ==
  /\ Running({970, 1080})
  /\ Enter
  /\ LET countryId == parseInt(Param(req.path, Row, ":countryId")) IN
     IF Row.line = 970 /\ isNaN(countryId)
       THEN json(400, Message("Invalid country ID")) /\ NoCall
       ELSE Await("getStatesByCountry", <<countryId>>, 200,
                  Rows("getStatesByCountry", <<countryId>>),
                  Message("Failed to fetch states"))

\* GET /api/cities/:stateId, registered at lines 984 and 1091
GetCities ==
  /\ Running({984, 1091})
  /\ Enter
  /\ LET stateId == parseInt(Param(req.path, Row, ":stateId")) IN
     IF Row.line = 984 /\ isNaN(stateId)
       THEN json(400, Message("Invalid state ID")) /\ NoCall
       ELSE Await("getCitiesByState", <<stateId>>, 200,
                  Rows("getCitiesByState", <<stateId>>),
                  Message("Failed to fetch cities"))

\* GET /api/admin/vendors/pending
GetPendingVendors ==
  /\ Running({999})
  /\ Enter
  /\ Await("getPendingVendors", <<>>, 200,
           Rows("getPendingVendors", <<>>),
           Message("Failed to fetch pending vendors"))

\* PATCH /api/admin/vendors/:id/status
PatchVendorStatus ==
  /\ Running({1009})
  /\ Enter
  /\ Await("updateVendorStatus", <<id, Get(req.body, "status"), user.id>>, 200,
           Rows("updateVendorStatus", <<id, Get(req.body, "status"), user.id>>),
           Message("Failed to update vendor status"))

\* PATCH /api/admin/jobs/:id
PatchAdminJob ==
  /\ Running({1021})
  /\ Enter
  /\ LET r == parse(partial(insertJobSchema), req.body) IN
     IF r.success
       THEN ChangeJob(id, r.data, Message("Failed to update job"))
       ELSE /\ res' = Invalid("Invalid job data", r.issues)
            /\ pc' = "done"
            /\ NoCall

\* PATCH /api/admin/companies/:id/status
PatchAdminCompanyStatus ==
  /\ Running({1036})
  /\ Enter
  /\ LET changes == Prop("status", Get(req.body, "status")) IN
     ChangeCompany("updateCompany", <<id, changes>>, id, changes,
                   Message("Failed to update company status"))

\* GET /api/categories
GetCategories ==
  /\ Running({1049})
  /\ Enter
  /\ Await("getCategories", <<>>, 200,
           Rows("getCategories", <<>>),
           Message("Failed to fetch categories"))

\* POST /api/categories
PostCategory ==
  /\ Running({1059})
  /\ Enter
  /\ Await("createCategory", <<req.body>>, 201,
           Rows("createCategory", <<req.body>>),
           Message("Failed to create category"))

\* ----------------------------------------------------------------- requests
\* The requests the clients send: for every registration, its path with each
\* parameter filled in, under every session, with the bodies, query strings
\* and file parts its handler looks at.
ParamChars == {"1", "x"}
ParamStrs  == StrsUpTo(ParamChars, MaxParamLen) \ {<<>>}
QueryChars == {"a", " "}
QueryStrs  == StrsUpTo(QueryChars, MaxQueryLen)
NameTokens == {"cv", ".", "PDF"}
FileNames  ==
  (StrsUpTo(NameTokens, MaxNameLen) \ {<<>>})
    \cup {<<"cv", ".", t>> : t \in {"doc", "docx", "exe", "png", "jpg", "jpeg", "gif"}}
FileSizes  == {1, ImageLimit, ImageLimit + 1, ResumeLimit, ResumeLimit + 1}

\* The objects with, for each key of choices, one of its optional values.
RECURSIVE Objects(_)
Objects(choices) ==
  IF DOMAIN choices = {} THEN {Empty}
  ELSE LET k    == CHOOSE key \in DOMAIN choices : TRUE
           rest == Objects([key \in DOMAIN choices \ {k} |-> choices[key]])
       IN  {Prop(k, o) @@ obj : o \in choices[k], obj \in rest}

Opt(values) == {None} \cup {Some(v) : v \in values}

\* The path of a registration with every parameter set to param.
Fill(pattern, param) ==
  [i \in DOMAIN pattern |->
     IF pattern[i] \in ParamSegments THEN param ELSE <<pattern[i]>>]

HasParam(pattern) == \E i \in DOMAIN pattern : pattern[i] \in ParamSegments

ParamsFor(row) ==
  IF ~HasParam(row.path) THEN {<<>>}
  ELSE IF row.line = 900 THEN QueryStrs \ {<<>>}
  ELSE ParamStrs

BodiesFor(row) ==
  CASE row.line = 156 -> Objects([headline |-> Opt({"Engineer"})])
    [] row.line \in {180, 192} ->
         Objects([title |-> Opt({"Developer"}), userId |-> Opt({"mallory"})])
    [] row.line \in {226, 238} ->
         Objects([institution |-> Opt({"MIT"}), userId |-> Opt({"mallory"})])
    [] row.line = 272 ->
         Objects([name |-> Opt({"TLA+"}), userId |-> Opt({"mallory"})])
    [] row.line = 407 ->
         Objects([name |-> Opt({"Acme"}), userId |-> Opt({"mallory"})])
    [] row.line = 421 ->
         Objects([status |-> Opt({"approved", "suspended"}),
                  approvedBy |-> Opt({"mallory"})])
    [] row.line \in {504, 942} ->
         Objects([name |-> Opt({"Vendor"}), companyId |-> Opt({"1"})])
    [] row.line \in {535, 1036} -> Objects([status |-> Opt({"approved", "suspended"})])
    [] row.line \in {607, 656} ->
         {Empty,
          [title |-> "Lead", recruiterId |-> "mallory",
           employmentType |-> "full_time"]}
    [] row.line = 620 ->
         Objects([title |-> Opt({"Developer"}), jobType |-> Opt({"contract"}),
                  city |-> Opt({"", "Austin"}), state |-> Opt({"TX"}),
                  country |-> Opt({"US"}), location |-> Opt({<<"Remote">>})])
    [] row.line = 703 ->
         Objects([jobId |-> Opt({<<"1">>, <<"x">>}),
                  applicantId |-> Opt({"mallory"})])
    [] row.line \in {726, 787, 1009} -> Objects([status |-> Opt({"accepted"})])
    [] row.line = 772 ->
         Objects([receiverId |-> Opt({"u2"}), requesterId |-> Opt({"mallory"})])
    [] row.line = 823 ->
         Objects([receiverId |-> Opt({"u2"}), content |-> Opt({"hello"}),
                  senderId |-> Opt({"mallory"})])
    [] row.line = 872 ->
         Objects([name |-> Opt({"TLA+ users"}), createdBy |-> Opt({"mallory"})])
    [] row.line = 1021 -> Objects([title |-> Opt({"Lead"})])
    [] row.line = 1059 -> Objects([name |-> Opt({"Engineering"})])
    [] OTHER -> {Empty}

LimitTexts ==
  {<<"x">>, <<"0">>, <<"-", "1">>, <<"5">>, <<"1", "5", "0">>,
   <<"2", "0", "0", "0">>, <<"5", "0", "0", "0", "0">>,
   <<"5", "0", "0", "0", "1">>}

QueriesFor(row) ==
  CASE row.line = 119 ->
         Objects([q |-> Opt(QueryStrs), query |-> Opt({<<"a", "a", "a">>})])
    [] row.line = 318 ->
         Objects([q |-> Opt({<<"a">>, <<"a", "b">>, UndefinedText}),
                  limit |-> Opt(LimitTexts)])
    [] row.line = 564 ->
         Objects([search |-> Opt({<<"a">>}), companyId |-> Opt({<<"1">>, <<"x">>}),
                  limit |-> Opt({<<"5">>})])
    [] row.line \in {850, 900} -> Objects([limit |-> Opt({<<"5">>, <<"x">>})])
    [] OTHER -> {Empty}

\* The file parts sent to a registration with an upload middleware: every
\* name and size under the expected field, and one under another field.
FilesFor(row) ==
  IF row.upload = "none" THEN {NoFile}
  ELSE {NoFile}
         \cup {[field |-> IF row.upload = "upload" THEN "resume" ELSE "logo",
                name |-> n, size |-> s] : n \in FileNames, s \in FileSizes}
         \cup {[field |-> "attachment", name |-> <<"cv", ".", "PDF">>, size |-> 1]}

\* A few of them: none, one of each allow-list, one of neither.
SomeFilesFor(row) ==
  {f \in FilesFor(row) :
     \/ f = NoFile
     \/ (f.size = 1 /\ f.name \in {<<"cv", ".", "PDF">>, <<"cv", ".", "png">>,
                                   <<"cv", ".", "exe">>})}

RequestsWith(row, files) ==
  {[method |-> row.method, path |-> Fill(row.path, p), session |-> s,
    body |-> b, file |-> f, query |-> q] :
     p \in ParamsFor(row), s \in Sessions, b \in BodiesFor(row),
     f \in files, q \in QueriesFor(row)}

RequestsTo(row) == RequestsWith(row, FilesFor(row))

\* The requests to the registrations at these lines of routes.ts.
RequestsAt(lines) ==
  UNION {RequestsWith(Routes[i], SomeFilesFor(Routes[i])) :
           i \in {j \in DOMAIN Routes : Routes[j].line \in lines}}

\* Requests no registration serves.
Unrouted ==
  {[method |-> "DELETE", path |-> Fill(<<"api", "companies", ":id">>, p),
    session |-> s, body |-> Empty, file |-> NoFile, query |-> Empty] :
     p \in ParamStrs, s \in Sessions}

Requests == UNION {RequestsTo(Routes[i]) : i \in DOMAIN Routes} \cup Unrouted

\* ------------------------------------------------------------ specification
SeedCompany(i) ==
  [id |-> i, userId |-> "admin-krupa", name |-> "Acme", status |-> "pending",
   approvedBy |-> ""]
SeedJob(i) ==
  [id |-> i, title |-> "Developer", recruiterId |-> "admin-krupa",
   employmentType |-> "full_time"]

Init ==
  /\ req = NoRequest
  /\ matched = 0
  /\ layer = 0
  /\ pc = "idle"
  /\ user = NoUser
  /\ file = NoFile
  /\ res = NoRes
  /\ err = NoErr
  /\ ran = <<>>
  /\ calls = <<>>
  /\ promises = NoPromises
  /\ companies \in [Ids -> {None} \cup {Some(SeedCompany(i)) : i \in Ids}]
  /\ jobs \in [Ids -> {None} \cup {Some(SeedJob(i)) : i \in Ids}]

\* A request of the set arrives and is dispatched.
Arrive(requests) ==
  /\ pc = "idle"
  /\ \E r \in requests :
       /\ req' = r
       /\ matched' = Dispatch(r.method, r.path)
       /\ pc' = IF matched' = 0 THEN "error" ELSE "chain"
  /\ layer' = 1
  /\ UNCHANGED <<user, file, res, err, ran, calls, promises, companies, jobs>>

Receive == Arrive(Requests)

\* The response is on the wire and nothing of the request is left pending.
Finish ==
  /\ pc = "done"
  /\ req' = NoRequest
  /\ matched' = 0
  /\ layer' = 0
  /\ pc' = "idle"
  /\ user' = NoUser
  /\ file' = NoFile
  /\ res' = NoRes
  /\ err' = NoErr
  /\ ran' = <<>>
  /\ calls' = <<>>
  /\ promises' = NoPromises
  /\ UNCHANGED <<companies, jobs>>

Middleware == isAuthenticated \/ upload \/ imageUpload \/ FinalHandler

ProfileHandlers ==
  \/ GetProfile \/ PutProfile
  \/ GetExperiences \/ PostExperience \/ PutExperience \/ DeleteExperience
  \/ GetEducation \/ PostEducation \/ PutEducation \/ DeleteEducation
  \/ GetSkills \/ PostSkill \/ DeleteSkill

CompanyHandlers ==
  \/ GetCompanyDetails \/ GetAllCompanies \/ GetCompanies
  \/ GetPendingCompanies \/ GetCompany \/ UploadCompanyLogo \/ PostCompany
  \/ PatchCompanyStatus \/ ApproveCompany \/ RejectCompany
  \/ GetCompanyVendors \/ PutCompany \/ PatchAdminCompanyStatus

JobHandlers ==
  \/ GetJob \/ GetJobs \/ PutJob \/ PostJob \/ DeleteJob \/ PatchAdminJob
  \/ GetApplications \/ GetJobApplications \/ PostApplication
  \/ PatchApplicationStatus \/ DeleteApplication

SearchHandlers ==
  Search \/ SearchByPath \/ CompanySearchSettles \/ JobSearchSettles

SocialHandlers ==
  \/ GetConnections \/ GetConnectionRequests \/ PostConnection
  \/ PutConnectionStatus \/ GetConversations \/ GetMessages \/ PostMessage
  \/ MarkMessageRead \/ GetGroups \/ GetUserGroups \/ PostGroup \/ JoinGroup

OtherHandlers ==
  \/ TestDbConnection \/ GetAdminStats \/ PostVendor \/ GetClientVendors
  \/ GetCountries \/ GetStates \/ GetCities \/ GetPendingVendors
  \/ PatchVendorStatus \/ GetCategories \/ PostCategory

Next ==
  \/ Receive
  \/ Middleware
  \/ ProfileHandlers \/ CompanyHandlers \/ JobHandlers \/ SearchHandlers
  \/ SocialHandlers \/ OtherHandlers
  \/ Finish

Spec == Init /\ [][Next]_vars

\* ------------------------------------------------- the parts of the service
\* The same machine restricted to the requests of one concern, with the
\* actions those requests can reach.

\* Registrations whose handler reads a path parameter with parseInt.
NumericParamLines ==
  {67, 192, 203, 238, 249, 284, 364, 421, 442, 460, 520, 535, 547, 593, 607,
   656, 667, 692, 726, 738, 787, 838, 887, 931, 970, 984, 1009, 1021, 1036,
   1080, 1091}

ParamRequests == RequestsAt(NumericParamLines)

NextParams ==
  \/ Arrive(ParamRequests)
  \/ isAuthenticated
  \/ GetCompanyDetails \/ PutExperience \/ DeleteExperience \/ PutEducation
  \/ DeleteEducation \/ DeleteSkill \/ GetCompany \/ PatchCompanyStatus
  \/ ApproveCompany \/ RejectCompany \/ GetCompanyVendors \/ PutCompany
  \/ GetJob \/ PutJob \/ DeleteJob \/ GetJobApplications
  \/ PatchApplicationStatus \/ DeleteApplication \/ PutConnectionStatus
  \/ MarkMessageRead \/ JoinGroup \/ GetClientVendors \/ GetStates
  \/ GetCities \/ PatchVendorStatus \/ PatchAdminJob
  \/ PatchAdminCompanyStatus
  \/ Finish

SpecParams == Init /\ [][NextParams]_vars

\* Registrations that create a row from the request body.
CreateLines == {180, 226, 272, 407, 504, 620, 703, 772, 823, 872, 942}

CreateRequests == RequestsAt(CreateLines)

NextCreate ==
  \/ Arrive(CreateRequests)
  \/ isAuthenticated \/ upload \/ FinalHandler
  \/ PostExperience \/ PostEducation \/ PostSkill \/ PostCompany
  \/ PostVendor \/ PostJob \/ PostApplication \/ PostConnection
  \/ PostMessage \/ PostGroup
  \/ Finish

SpecCreate == Init /\ [][NextCreate]_vars

\* Registrations made with isAuthenticated.
ProtectedLines == {Routes[i].line : i \in {j \in DOMAIN Routes : Routes[j].auth}}

ProtectedRequests == RequestsAt(ProtectedLines)

NextGate ==
  \/ Arrive(ProtectedRequests)
  \/ Middleware
  \/ PutProfile
  \/ GetExperiences \/ PostExperience \/ PutExperience \/ DeleteExperience
  \/ GetEducation \/ PostEducation \/ PutEducation \/ DeleteEducation
  \/ GetSkills \/ PostSkill \/ DeleteSkill
  \/ GetAdminStats \/ PostVendor \/ PutCompany \/ PutJob \/ DeleteJob
  \/ GetApplications \/ GetJobApplications \/ PostApplication
  \/ GetConnections \/ GetConnectionRequests \/ PostConnection
  \/ PutConnectionStatus \/ GetConversations \/ GetMessages \/ PostMessage
  \/ MarkMessageRead \/ GetUserGroups \/ PostGroup \/ JoinGroup
  \/ GetClientVendors \/ GetPendingVendors \/ PatchVendorStatus
  \/ PatchAdminJob \/ PatchAdminCompanyStatus \/ PostCategory
  \/ UploadCompanyLogo
  \/ Finish

SpecGate == Init /\ [][NextGate]_vars

\* Registrations with an upload middleware, with every file part.
UploadRequests ==
  UNION {RequestsTo(Routes[i]) :
           i \in {j \in DOMAIN Routes : Routes[j].upload # "none"}}

NextUpload ==
  \/ Arrive(UploadRequests)
  \/ Middleware
  \/ PostApplication \/ UploadCompanyLogo
  \/ Finish

SpecUpload == Init /\ [][NextUpload]_vars

\* The two global search registrations.
SearchRequests == RequestsAt({119, 900})

NextSearch ==
  \/ Arrive(SearchRequests)
  \/ SearchHandlers
  \/ Finish

SpecSearch == Init /\ [][NextSearch]_vars

\* The registrations that read, create and change one company.
CompanyRequests == RequestsAt({364, 407, 421, 442, 460, 535, 1036})

NextCompanies ==
  \/ Arrive(CompanyRequests)
  \/ isAuthenticated
  \/ GetCompany \/ PostCompany \/ PatchCompanyStatus \/ ApproveCompany
  \/ RejectCompany \/ PutCompany \/ PatchAdminCompanyStatus
  \/ Finish

SpecCompanies == Init /\ [][NextCompanies]_vars

\* The registrations that read, create, change and delete one job.
JobRequests == RequestsAt({547, 593, 607, 620, 656, 667, 1021})

NextJobs ==
  \/ Arrive(JobRequests)
  \/ isAuthenticated
  \/ GetJob \/ PostJob \/ PutJob \/ DeleteJob \/ PatchAdminJob
  \/ Finish

SpecJobs == Init /\ [][NextJobs]_vars

\* Of a set of objects, the empty one and the ones with the most properties.
Extremes(objs) ==
  {o \in objs :
     \/ o = Empty
     \/ \A other \in objs : Cardinality(DOMAIN other) <= Cardinality(DOMAIN o)}

\* Every registration, with a few bodies, query strings and file parts each,
\* and the requests no registration serves.
RouteRequests ==
  UNION {{[method |-> Routes[i].method, path |-> Fill(Routes[i].path, p),
           session |-> s, body |-> b, file |-> f, query |-> q] :
            p \in ParamsFor(Routes[i]), s \in Sessions,
            b \in Extremes(BodiesFor(Routes[i])),
            f \in SomeFilesFor(Routes[i]),
            q \in Extremes(QueriesFor(Routes[i]))} : i \in DOMAIN Routes}
    \cup Unrouted

NextRoutes ==
  \/ Arrive(RouteRequests)
  \/ Middleware
  \/ ProfileHandlers \/ CompanyHandlers \/ JobHandlers \/ SearchHandlers
  \/ SocialHandlers \/ OtherHandlers
  \/ Finish

SpecRoutes == Init /\ [][NextRoutes]_vars

\* The GET routes under /api/companies with one more segment: the literal
\* paths all and pending, and the pattern :id that matches them too.
CompanyPathRequests == RequestsAt({296, 307, 353, 364})

NextCompanyPaths ==
  \/ Arrive(CompanyPathRequests)
  \/ GetAllCompanies \/ GetPendingCompanies \/ GetCompany
  \/ Finish

SpecCompanyPaths == Init /\ [][NextCompanyPaths]_vars

\* ---------------------------------------------------------------- properties
\* The request in flight reached its handler.
HandlerRan == \E i \in DOMAIN ran : ran[i] = "handler"

\* A registration serves the request in flight and the response is complete.
Answered == matched # 0 /\ pc = "done"

\* The text of the path parameter of the request in flight.
ParamText ==
  LET i == CHOOSE k \in DOMAIN Row.path : Row.path[k] \in ParamSegments
  IN  req.path[i]

\* C1: on every route that parses a path parameter as a number, a request
\* whose parameter is not a number is answered 400 (never 500) and no
\* data-access call is made for it.
C1_NonNumericParamIs400 ==
  (Answered /\ Row.line \in NumericParamLines /\ HandlerRan
     /\ isNaN(parseInt(ParamText)))
    => (res.status = 400 /\ calls = <<>>)

\* The properties the caller of a create operation has to send: the required
\* ones of its schema that the handler does not fill in itself.
CallerRequired(line) ==
  CASE line = 180 -> {"title"}
    [] line = 226 -> {"institution"}
    [] line \in {272, 407, 872} -> {"name"}
    [] line \in {504, 942} -> {"companyId", "name"}
    [] line = 620 -> {"title"}
    [] line = 703 -> {"jobId"}
    [] line = 772 -> {"receiverId"}
    [] line = 823 -> {"receiverId", "content"}
    [] OTHER -> {}

MissingRequired == {f \in CallerRequired(Row.line) : ~Has(req.body, f)}

\* C2: every create operation answers a payload that lacks a required field
\* with 400 and a body whose errors list names that field.
C2_MissingFieldIs400 ==
  (Answered /\ Row.line \in CreateLines /\ HandlerRan /\ MissingRequired # {})
    => /\ res.status = 400
       /\ Has(res.body, "errors")
       /\ MissingRequired \subseteq res.body.errors

\* C3: a protected route called without a session user ends at the gate with
\* 401 "Authentication required": no upload middleware, no handler and no
\* data-access call runs for it.  With a session user, the identity the
\* handler sees is the session user.
C3_GateBeforeEverything ==
  (matched # 0 /\ Row.auth) =>
    /\ (req.session = NoUser /\ ran # <<>>) =>
         /\ res = [status |-> 401, body |-> Message("Authentication required")]
         /\ pc = "done"
         /\ ran = <<"isAuthenticated">>
         /\ calls = <<>>
         /\ file = NoFile
         /\ err = NoErr
         /\ user = NoUser
    /\ HandlerRan => (user = req.session /\ req.session # NoUser)

\* An application with a resume part was refused at the gate, before the
\* upload middleware saw the file.
C3_Refused ==
  /\ Answered
  /\ Row.line = 703
  /\ req.session = NoUser
  /\ req.file # NoFile
  /\ res.status = 401
  /\ ran = <<"isAuthenticated">>

\* The file name ends in a dot and pdf, doc or docx in any letter case.
ResumeExtensions == {"pdf", "PDF", "Pdf", "doc", "DOC", "Doc", "docx", "DOCX", "Docx"}
EndsAsResume(name) ==
  /\ Len(name) >= 2
  /\ name[Len(name) - 1] = "."
  /\ name[Len(name)] \in ResumeExtensions

\* C4: an application whose resume file does not have the extension .pdf,
\* .doc or .docx (in any letter case) is rejected, and createJobApplication
\* is never called for it.
C4_DisallowedResumeNeverStored ==
  (matched # 0 /\ Row.line = 703 /\ req.file.field = "resume"
     /\ ~EndsAsResume(req.file.name))
    => /\ \A i \in DOMAIN calls : calls[i].op # "createJobApplication"
       /\ ~HandlerRan
       /\ file = NoFile
       /\ pc = "done" => res.status >= 400

\* A signed-in applicant sent cv.exe and the upload middleware refused it.
C4_ExeRefused ==
  /\ Answered
  /\ Row.line = 703
  /\ req.session # NoUser
  /\ req.file.field = "resume"
  /\ req.file.name = <<"cv", ".", "exe">>
  /\ ran = <<"isAuthenticated", "upload">>
  /\ err # NoErr
  /\ res.status >= 400

\* The errors of multer for a file off the allow-list or over the size limit.
Rejections ==
  {"Only PDF, DOC, and DOCX files are allowed",
   "Only JPG, JPEG, PNG, and GIF images are allowed",
   "File too large"}

\* C5: an upload refused for its type or its size is answered with a 4xx
\* response whose message names the constraint, not with a server error.
C5_RejectedUploadIsClientError ==
  (Answered /\ err.message \in Rejections)
    => /\ res.status \in 400..499
       /\ res.body = Message(err.message)

\* The text GET /api/search searches for: q, or query when q is absent or
\* empty; none when both are.
QueryText ==
  IF Has(req.query, "q") /\ req.query["q"] # <<>> THEN <<req.query["q"]>>
  ELSE IF Has(req.query, "query") /\ req.query["query"] # <<>>
    THEN <<req.query["query"]>>
  ELSE <<>>

\* The length of a text between its first and its last non-blank character.
NonBlank(s) == {i \in DOMAIN s : s[i] \notin Whitespace}
TrimmedLen(s) ==
  IF NonBlank(s) = {} THEN 0
  ELSE (CHOOSE i \in NonBlank(s) : \A j \in NonBlank(s) : j <= i)
         - (CHOOSE i \in NonBlank(s) : \A j \in NonBlank(s) : i <= j) + 1

ShortQuery == QueryText = <<>> \/ TrimmedLen(QueryText[1]) < 3

\* C6: GET /api/search with no query, or one shorter than 3 characters once
\* trimmed, answers exactly {companies: [], jobs: []} and calls neither
\* searchCompanies nor searchJobs.
C6_ShortQueryAnswersEmpty ==
  (matched # 0 /\ Row.line = 119 /\ HandlerRan /\ ShortQuery)
    => /\ res = [status |-> 200, body |-> [companies |-> <<>>, jobs |-> <<>>]]
       /\ pc = "done"
       /\ calls = <<>>
       /\ promises = NoPromises

\* A query of three characters, one of them between two blanks, was answered.
C6_PaddedQuery ==
  /\ Answered
  /\ Row.line = 119
  /\ HandlerRan
  /\ QueryText = << <<" ", "a", " ">> >>
  /\ res.status = 200

\* C7: GET /api/search with a valid query answers with the company search's
\* result under companies and the job search's result under jobs, whichever
\* of the two finishes first.
C7_FieldsFollowTheirSearch ==
  (matched # 0 /\ Row.line = 119 /\ promises.companies.state = "fulfilled"
     /\ promises.jobs.state = "fulfilled")
    => res = [status |-> 200,
              body   |-> [companies |-> promises.companies.value,
                          jobs      |-> promises.jobs.value]]

\* The job search finished before the company search, each with a row, and
\* the response carries both.
C7_JobsFirst ==
  /\ Answered
  /\ Row.line = 119
  /\ ran = <<"handler", "jobs", "companies">>
  /\ promises.companies.value # <<>>
  /\ promises.jobs.value # <<>>
  /\ res.status = 200
  /\ res.body.companies = promises.companies.value

\* C8: in both global search handlers, when one of the two searches fails the
\* request is answered 500 whatever the other search did, and the response
\* carries no result of the search that succeeded.
C8_OneFailureFailsTheSearch ==
  (matched # 0 /\ Row.line \in {119, 900}
     /\ (promises.companies.state = "rejected"
           \/ promises.jobs.state = "rejected"))
    => /\ res.status = 500
       /\ Has(res.body, "companies") => res.body.companies = <<>>
       /\ Has(res.body, "jobs") => res.body.jobs = <<>>

\* The company search found a row, the job search failed afterwards.
C8_LateFailure ==
  /\ Answered
  /\ Row.line \in {119, 900}
  /\ ran = <<"handler", "companies", "jobs">>
  /\ promises.companies.state = "fulfilled"
  /\ promises.companies.value # <<>>
  /\ promises.jobs.state = "rejected"
  /\ res.status = 500

\* The store holds a company under the id the request names.
CompanyStored ==
  LET n == parseInt(ParamText) IN
  ~isNaN(n) /\ n.val \in Ids /\ companies[n.val] # None

\* C9: GET /api/companies/:id answers 404 when the store has no company with
\* that id, and otherwise the stored record as it is; the only other answers
\* are 400 for an id that is not a number and 500 when the store fails.
C9_CompanyAsStored ==
  (Answered /\ Row.line = 364
     /\ res # [status |-> 500, body |-> Message("Failed to fetch company")]) =>
    IF isNaN(parseInt(ParamText))
      THEN res.status = 400
    ELSE IF CompanyStored
      THEN res = [status |-> 200, body |-> companies[parseInt(ParamText).val][1]]
    ELSE res = [status |-> 404, body |-> Message("Company not found")]

\* A company whose status was changed after its creation was read back.
C9_ChangedCompanyRead ==
  /\ Answered
  /\ Row.line = 364
  /\ CompanyStored
  /\ res.status = 200
  /\ res.body.status # "pending"

\* The store holds a job under the id the request names.
JobStored ==
  LET n == parseInt(ParamText) IN
  ~isNaN(n) /\ n.val \in Ids /\ jobs[n.val] # None

\* C10: GET /api/jobs/:id for an id under which no job is stored answers 404
\* with the body {message: "Job not found"}.
C10_MissingJobMessage ==
  (Answered /\ Row.line \in {547, 593} /\ ~isNaN(parseInt(ParamText))
     /\ ~JobStored /\ res.status # 500)
    => res = [status |-> 404, body |-> Message("Job not found")]

ErrorStatuses == {400, 401, 403, 404, 500}

\* C11: every error response (status 400, 401, 403, 404 or 500) of every
\* route is a JSON object with a message property.
C11_ErrorsCarryMessage ==
  (Answered /\ res.status \in ErrorStatuses) => Has(res.body, "message")

\* A handler answered 500 after it had called the data layer: the call, or
\* something after it, failed.
FailedAfterCall == Answered /\ HandlerRan /\ res.status = 500 /\ calls # <<>>

\* The response body carries the message of the error that was thrown.
ErrorDisclosed == Has(res.body, "error") /\ res.body.error = StorageError

\* C12: when a handler fails for a reason other than input validation, the
\* 500 response carries a fixed message and nothing of the underlying error.
C12_FailureNotDisclosed == FailedAfterCall => ~ErrorDisclosed

\* C13: the body of a create or update request is checked against the
\* entity's schema before any data-access call: a body that lacks a required
\* property never reaches the data layer.
C13_CheckedBeforeStored ==
  (matched # 0 /\ Row.line \in CreateLines /\ MissingRequired # {})
    => calls = <<>>

\* What runs for a request once it was dispatched.
Serve ==
  \/ Middleware
  \/ ProfileHandlers \/ CompanyHandlers \/ JobHandlers \/ SearchHandlers
  \/ SocialHandlers \/ OtherHandlers

InFlight == pc \in {"chain", "await", "error"}

\* No operation of the data layer is called twice for one request.
NoRetry ==
  \A i, j \in DOMAIN calls : calls[i].op = calls[j].op => i = j

SamePair(i) ==
  {j \in DOMAIN Routes :
     Routes[j].method = Routes[i].method /\ Routes[j].path = Routes[i].path}

\* C15: each (method, path pattern) pair is registered once: the registration
\* that serves a request is the only one made for its pair.
C15_OneHandlerPerPair == matched # 0 => SamePair(matched) = {matched}

\* The request path that spells out a registered path without parameters.
Literal(pattern) == [k \in DOMAIN pattern |-> <<pattern[k]>>]

\* The registrations of literal paths that the request in flight spells out.
LiteralsOfRequest ==
  {i \in DOMAIN Routes :
     /\ Routes[i].method = req.method
     /\ ~HasParam(Routes[i].path)
     /\ Literal(Routes[i].path) = req.path}

\* C16: a request for a registered literal path is served by a registration
\* of that literal path, never by a parameterized pattern that also matches
\* it: GET /api/companies/all and /pending are not answered by
\* GET /api/companies/:id with 400 "Invalid company ID".
C16_LiteralBeforePattern ==
  (matched # 0 /\ LiteralsOfRequest # {})
    => /\ matched \in LiteralsOfRequest
       /\ res # [status |-> 400, body |-> Message("Invalid company ID")]

\* GET /api/companies/pending, which GET /api/companies/:id matches as well,
\* was answered by its own handler.
C16_PendingServed ==
  /\ Answered
  /\ req.path = <<<<"api">>, <<"companies">>, <<"pending">>>>
  /\ Cardinality(Matching(req.method, req.path)) > 1
  /\ Row.line = 353
  /\ HandlerRan
  /\ res.status = 200

\* The approver PATCH /api/companies/:id/status records: approvedBy of the
\* body, the fixed admin id when the body names none.
Approver ==
  IF Has(req.body, "approvedBy") /\ req.body["approvedBy"] # ""
    THEN req.body["approvedBy"]
    ELSE "admin-krupa"

\* PATCH /api/companies/:id/status with status "approved" is about to be
\* handled for a company that an identical request has approved before.
ApprovalRepeated ==
  /\ pc = "chain"
  /\ matched # 0
  /\ Row.line = 421
  /\ Has(req.body, "status")
  /\ req.body["status"] = "approved"
  /\ CompanyStored
  /\ companies[parseInt(ParamText).val][1].status = "approved"
  /\ companies[parseInt(ParamText).val][1].approvedBy = Approver

\* C17: approving a company through PATCH /api/companies/:id/status is
\* idempotent: the identical request repeated leaves the stored company as
\* the first call left it and is answered with that company again; the only
\* other answer is the 500 of a failing store.
C17_ApprovalIdempotent ==
  [][ApprovalRepeated =>
       /\ companies' = companies
       /\ \/ res' = [status |-> 200,
                     body   |-> companies[parseInt(ParamText).val][1]]
          \/ res' = [status |-> 500,
                     body   |-> Message("Failed to update company status")]]_vars

\* The status of a stored company is different after the step.
StatusChanges ==
  \E i \in Ids :
    /\ companies[i] # None
    /\ companies'[i] # None
    /\ companies'[i][1].status # companies[i][1].status

\* C18: the status of a company changes only in a request made under an
\* admin session: never without a session or under another user's.
C18_StatusChangedByAdminOnly ==
  [][StatusChanges => req.session.email \in AdminEmails]_vars

\* A stored job is different, or gone, after the step.
JobChanges(i) == jobs[i] # None /\ jobs'[i] # jobs[i]

\* The requesting identity is the recruiter of job i or an admin.
OwnerOrAdmin(i) ==
  \/ req.session.id # "" /\ req.session.id = jobs[i][1].recruiterId
  \/ req.session.email \in AdminEmails

\* C19: a stored job is updated or deleted only in a request of its recruiter
\* or of an admin: any other user's request leaves it as it was.
C19_JobChangedByOwnerOrAdmin ==
  [][\A i \in Ids : JobChanges(i) => OwnerOrAdmin(i)]_vars

\* The data layer was asked to delete a job application or to change its status.
ApplicationTouched ==
  \E k \in DOMAIN calls :
    calls[k].op \in {"deleteJobApplication", "updateJobApplicationStatus"}

\* C20: a job application is deleted or has its status changed only in a
\* request that carries a session identity.
C20_ApplicationChangedUnderIdentity ==
  ApplicationTouched => req.session # NoUser

\* The registrations of GET and POST on connections, messages and groups.
SocialLines == {750, 772, 811, 823, 850, 872}

SocialRequests == RequestsAt(SocialLines)

NextSocial ==
  \/ Arrive(SocialRequests)
  \/ isAuthenticated
  \/ GetConnections \/ PostConnection \/ GetMessages \/ PostMessage
  \/ GetGroups \/ PostGroup
  \/ Finish

SpecSocial == Init /\ [][NextSocial]_vars

\* C21: without a session user, GET and POST on connections, messages and
\* groups make no data-access call and are answered 401.
C21_SocialNeedsSession ==
  (matched # 0 /\ Row.line \in SocialLines /\ req.session = NoUser) =>
    /\ calls = <<>>
    /\ pc = "done" => res.status = 401

\* The body names a city, a state and a country, none of them empty.
Located ==
  \A k \in {"city", "state", "country"} : Has(req.body, k) /\ req.body[k] # ""

\* "<city>, <state>, <country>" of the body
PlaceName ==
  <<req.body["city"], ", ", req.body["state"], ", ", req.body["country"]>>

\* POST /api/jobs was answered with the job it stored.
JobCreated ==
  /\ Answered /\ Row.line = 620 /\ res.status = 200
  /\ jobs[res.body.id] = Some(res.body)

\* C22: the job stored by POST /api/jobs has location "<city>, <state>,
\* <country>" when the body has all three non-empty and no location; when one
\* of the three is missing or empty its location is as the body gives it.
C22_LocationFromPlace ==
  (Answered /\ Row.line = 620 /\ res.status = 200) =>
    /\ JobCreated
    /\ (Located /\ ~Has(req.body, "location")) =>
         Get(res.body, "location") = Some(PlaceName)
    /\ ~Located => Get(res.body, "location") = Get(req.body, "location")

C22_AustinStored ==
  /\ JobCreated /\ Located /\ ~Has(req.body, "location")
  /\ jobs[res.body.id][1].location = <<"Austin", ", ", "TX", ", ", "US">>

\* GET /api/companies alone, with every query text and limit of the bounds.
CompanyListRequests == RequestsAt({318})

NextCompanyList == Arrive(CompanyListRequests) \/ GetCompanies \/ Finish

SpecCompanyList == Init /\ [][NextCompanyList]_vars

\* The handler of GET /api/companies has run for the request in flight.
CompaniesAsked == matched # 0 /\ Row.line = 318 /\ HandlerRan

\* The limit of the query string as a number: NaN when absent or not numeric.
AskedLimit == parseIntOpt(Get(req.query, "limit"))

\* C23: GET /api/companies without a search query, whatever its limit, asks
\* storage.getCompanies once for between 1 and 50000 companies, and only that
\* call can make it answer an error.
C23_ListLimitInRange ==
  (CompaniesAsked /\ ~Has(req.query, "q")) =>
    /\ Len(calls) = 1
    /\ calls[1].op = "getCompanies"
    /\ ~isNaN(calls[1].args[1])
    /\ calls[1].args[1].val \in 1..50000
    /\ res.status \in {200, 500}

C23_HugeLimitCapped ==
  /\ Answered /\ CompaniesAsked /\ ~Has(req.query, "q")
  /\ Has(req.query, "limit") /\ AskedLimit.val > 50000
  /\ res.status = 200
  /\ calls[1].args[1] = Num(50000)

\* The request carries a search text of two characters or more that is not
\* the text "undefined".
SearchText ==
  /\ Has(req.query, "q")
  /\ Len(req.query["q"]) >= 2
  /\ req.query["q"] # UndefinedText

\* 100 for a limit that is absent, not numeric or at most 100; otherwise the
\* smaller of the limit and 1000.
SearchCap ==
  IF isNaN(AskedLimit) \/ AskedLimit.val <= 100 THEN 100
  ELSE IF AskedLimit.val < 1000 THEN AskedLimit.val ELSE 1000

\* C28: GET /api/companies with a search text calls storage.searchCompanies
\* and never storage.getCompanies, with the cap that follows from the limit,
\* which is always between 100 and 1000.
C28_SearchCapInRange ==
  (CompaniesAsked /\ SearchText) =>
    /\ Len(calls) = 1
    /\ calls[1].op = "searchCompanies"
    /\ calls[1].args[1] = req.query["q"]
    /\ calls[1].args[2] = Num(SearchCap)
    /\ calls[1].args[2].val \in 100..1000

C28_LargeSearchCapped ==
  /\ Answered /\ CompaniesAsked /\ SearchText
  /\ Has(req.query, "limit") /\ AskedLimit.val > 1000
  /\ res.status = 200
  /\ calls[1].args[2] = Num(1000)

\* C24: when the company search or the job search of a global search fails,
\* the request is answered as a success, with an empty array in place of the
\* results of the search that failed.
C24_FailedSearchAnswersEmpty ==
  (Answered /\ Row.line \in {119, 900}
     /\ (promises.companies.state = "rejected"
           \/ promises.jobs.state = "rejected")) =>
    /\ res.status = 200
    /\ promises.companies.state = "rejected" =>
         (Has(res.body, "companies") /\ res.body.companies = <<>>)
    /\ promises.jobs.state = "rejected" =>
         (Has(res.body, "jobs") /\ res.body.jobs = <<>>)

CompanyStatuses == {"pending", "approved", "rejected"}

\* Every stored company has a status of the enumeration.
StoredStatusesKnown ==
  \A i \in Ids : companies[i] # None => companies[i][1].status \in CompanyStatuses

\* The status handed to the data layer by the two status routes, as an
\* optional value: none when the body has no status.
PassedStatuses ==
  {IF calls[k].op = "updateCompanyStatus" THEN calls[k].args[2]
   ELSE Get(calls[k].args[2], "status") :
     k \in {j \in DOMAIN calls : /\ matched # 0 /\ Row.line \in {421, 1036}
                                 /\ calls[j].op \in {"updateCompanyStatus",
                                                     "updateCompany"}}}

\* C25: every stored company status is pending, approved or rejected, and
\* the status routes hand the data layer no other status and no absent one.
C25_StatusInEnumeration ==
  /\ StoredStatusesKnown
  /\ \A s \in PassedStatuses : s # None /\ s[1] \in CompanyStatuses

\* The registrations of a method and path that are made twice.
RepeatedLines ==
  {296, 307, 382, 1103, 504, 942, 547, 593, 607, 656, 960, 1070, 970, 1080,
   984, 1091}

RepeatedRequests == RequestsAt(RepeatedLines)

NextRepeated ==
  \/ Arrive(RepeatedRequests)
  \/ isAuthenticated \/ imageUpload \/ FinalHandler
  \/ GetAllCompanies \/ UploadCompanyLogo \/ PostVendor \/ GetJob \/ PutJob
  \/ GetCountries \/ GetStates \/ GetCities
  \/ Finish

SpecRepeated == Init /\ [][NextRepeated]_vars

\* The registration at this line matches the request in flight.
Matches(line) ==
  \E i \in Matching(req.method, req.path) : Routes[i].line = line

\* C26: of the registrations that match a request only the first ever runs.
\* POST /api/vendors is served without a session and without validation and
\* is never answered 201, 400 or 401; POST /api/upload/company-logo is never
\* answered 401; PUT /api/jobs/:id reaches the data layer only with a body
\* that passes insertJobSchema.
C26_OnlyFirstRegistrationRuns ==
  matched # 0 =>
    /\ \A i \in Matching(req.method, req.path) : matched <= i
    /\ Matches(942) =>
         /\ Row.line = 504
         /\ ~Row.auth
         /\ res.status \notin {201, 400, 401}
         /\ HandlerRan => (calls # <<>> /\ calls[1].op = "addVendor")
    /\ Matches(1103) => (Row.line = 382 /\ ~Row.auth /\ res.status # 401)
    /\ Matches(656) =>
         /\ Row.line = 607
         /\ calls # <<>> => parse(insertJobSchema, req.body).success

C26_VendorStoredUnchecked ==
  /\ Answered /\ Matches(942) /\ Matches(504)
  /\ req.session = NoUser
  /\ ~parse(insertVendorSchema, req.body).success
  /\ res.status = 200
  /\ calls[1].op = "addVendor"

\* The registrations that create a record for the session user.
OwnedLines == {180, 226, 272, 703, 772, 823, 872}

\* The property of the record that names its owner.
OwnerField ==
  CASE Row.line \in {180, 226, 272} -> "userId"
    [] Row.line = 703 -> "applicantId"
    [] Row.line = 772 -> "requesterId"
    [] Row.line = 823 -> "senderId"
    [] Row.line = 872 -> "createdBy"

\* C27: the record an authenticated create hands to the data layer has the
\* id of the session user in its owner field, whatever the body says there;
\* the owner is the same for requests that differ in the body's owner only.
C27_OwnerIsSessionUser ==
  (matched # 0 /\ Row.line \in OwnedLines /\ calls # <<>>) =>
    /\ Len(calls) = 1
    /\ req.session # NoUser
    /\ Has(calls[1].args[1], OwnerField)
    /\ calls[1].args[1][OwnerField] = req.session.id

C27_ForgedSenderReplaced ==
  /\ Answered /\ Row.line = 823 /\ res.status = 200
  /\ Has(req.body, "senderId") /\ req.body["senderId"] = "mallory"
  /\ req.session = PlainUser
  /\ calls[1].args[1]["senderId"] = "u1"

====
